---- MODULE Spec2Model ----
(***************************************************************************)
(* Traffic-signal simulation of src/ai_city/sim_grid_2x2.py as a state     *)
(* machine.  One action is one process step of the cooperative kernel: the *)
(* earliest scheduled event (time, priority, insertion number) is popped,  *)
(* the clock moves to its time and the process it resumes runs up to its   *)
(* next suspension point.  Time is counted in whole time units; sampled    *)
(* travel delays and inter-arrival gaps are drawn from small integer sets. *)
(***************************************************************************)
EXTENDS Integers, Sequences, FiniteSets, TLC

VARIABLES
    now,          \* env.now
    eid,          \* next insertion number handed out by env.schedule
    queue,        \* scheduled events: records [t, prio, eid, type, proc, val]
    running,      \* FALSE once env.run(until=...) has returned
    failed,       \* TRUE once an exception ended the run (a constructor or a process raised)
    cfg,          \* the controller handed to every Intersection, and the horizon
    phase,        \* Intersection.phase
    phase_start,  \* Intersection.phase_start
    red_wait_ns,  \* Intersection.red_wait_ns
    red_wait_ew,  \* Intersection.red_wait_ew
    items,        \* q_ns.items / q_ew.items of every intersection
    get_queue,    \* pending getters of q_ns / q_ew of every intersection
    veh,          \* the Vehicle objects created so far
    gen_i,        \* poisson_generator's counter i, per entry point
    log_events,   \* signal and release records
    done,         \* completion records
    snapshots,    \* monitor rows
    put_hist,     \* history: vehicles in the order they were put, per Store
    dec,          \* history: the last decide() call of every intersection
    fair_deadline, \* history: per direction, the time by which it must be green
    one,          \* sim_one_intersection: the Intersection object
    cars,         \* sim_one_intersection: the vehicle dicts created so far
    done_list,    \* sim_one_intersection: completion records
    zones,        \* sim_energy_zones: EnergyManager.zones, in list order
    mgr,          \* sim_energy_zones: the EnergyManager's fields and run()'s arguments
    log_rows      \* sim_energy_zones: the rows logged by allocate

gridVars == <<phase, phase_start, red_wait_ns, red_wait_ew, items, get_queue, veh,
              gen_i, log_events, done, snapshots, put_hist, dec, fair_deadline>>
oneVars == <<one, cars, done_list>>
energyVars == <<zones, mgr, log_rows>>

vars == <<now, eid, queue, running, failed, cfg, phase, phase_start, red_wait_ns,
          red_wait_ew, items, get_queue, veh, gen_i, log_events, done, snapshots,
          put_hist, dec, fair_deadline, oneVars, energyVars>>

-----------------------------------------------------------------------------
(* Bounds of the model and constants of the program *)

Horizon == 17
MaxVehicles == 2
ScenarioHorizon == 61
MaxTimeIn == 4
MaxQueueLen == 2
MaxRedWait == 2
EnergyHours == 3

URGENT == 0
NORMAL == 1
\* Variant service time, one unit longer
ServiceTimeSlow == 2 + 1
ServiceTime == 2
FairnessTick == 1
MonitorEvery == 1
TravelMin == 6
TravelMax == 14

Directions == {"NS", "EW"}
GridIntersections == {"A", "B", "C", "D"}
Entries == {"W2E_T", "W2E_B", "N2S_L", "N2S_R"}

\* Sampled values.  random.uniform(6, 14) and random.expovariate(rate) are
\* continuous; the model draws whole numbers of time units inside their ranges.
TravelDelays == {d \in TravelMin..TravelMax : d <= TravelMin + 1}
Gaps == {1, 3}

NoVeh == [who |-> "", n |-> 0]
Proc(k, who, n) == [k |-> k, who |-> who, n |-> n]
VehProc(v) == Proc("veh", v.who, v.n)
VehOf(p) == [who |-> p.who, n |-> p.n]

-----------------------------------------------------------------------------
(* Controllers *)

\* A controller object: its kind, its fields (those of the other kinds are
\* left 0; model_path stands for what the file it names holds), the
\* classifier it loaded, and whether its construction succeeded.
FixedCfg(gns, gew) ==
    [kind |-> "fixed", green_ns |-> gns, green_ew |-> gew,
     min_green |-> 0, max_green |-> 0, bias_threshold |-> 0, force_switch_wait |-> 0,
     model_path |-> "none", model |-> "none", loaded |-> TRUE]

ActuatedCfg(mn, mx, bias, force) ==
    [kind |-> "actuated", green_ns |-> 0, green_ew |-> 0,
     min_green |-> mn, max_green |-> mx, bias_threshold |-> bias,
     force_switch_wait |-> force, model_path |-> "none", model |-> "none",
     loaded |-> TRUE]

\* The classifiers a model artifact may hold.  The fitted tree is not part of
\* the program; the model runs three binary classifiers over the features.
Policies == {"hold", "switch", "pressure"}

\* What the file at model_path may be: a pickled classifier, absent, or damaged
Artifacts == Policies \cup {"missing", "corrupt"}

\* Variant of joblib.load that swallows the error and falls back to a classifier
LoadModelDefault(artifact) ==
    [ok |-> TRUE, model |-> IF artifact \in Policies THEN artifact ELSE "hold"]

\* joblib.load(self.model_path): the classifier, or an exception (ok = FALSE)
LoadModel(artifact) ==
    IF artifact \in Policies THEN [ok |-> TRUE, model |-> artifact]
    ELSE [ok |-> FALSE, model |-> "none"]

\* DecisionTreeTrafficController(model_path, min_green, max_green) with
\* __post_init__; artifact is what model_path holds.
DTCfg(artifact, mn, mx) ==
    [kind |-> "dt", green_ns |-> 0, green_ew |-> 0,
     min_green |-> mn, max_green |-> mx, bias_threshold |-> 0,
     force_switch_wait |-> 0, model_path |-> artifact,
     model |-> LoadModel(artifact).model, loaded |-> LoadModel(artifact).ok]

\* Variant of the phase flip that keeps the direction
OtherKept(d) == d

Other(d) == IF d = "NS" THEN "EW" ELSE "NS"

\* Variant of FixedTimeController.decide that switches one unit late (> for >=)
FixedDecideLate(c, ph, time_in) ==
    IF ph = "NS" /\ time_in > c.green_ns THEN [action |-> "SWITCH", dt |-> 0]
    ELSE IF ph = "EW" /\ time_in > c.green_ew THEN [action |-> "SWITCH", dt |-> 0]
    ELSE [action |-> "HOLD", dt |-> 1]

\* FixedTimeController.decide
FixedDecide(c, ph, time_in) ==
    IF ph = "NS" /\ time_in >= c.green_ns THEN [action |-> "SWITCH", dt |-> 0]
    ELSE IF ph = "EW" /\ time_in >= c.green_ew THEN [action |-> "SWITCH", dt |-> 0]
    ELSE [action |-> "HOLD", dt |-> 1]

\* Variant of ActuatedController.decide without the fairness override
ActuatedDecideNoFairness(c, ph, time_in, qns, qew, rwns, rwew) ==
    IF time_in >= c.max_green THEN [action |-> "SWITCH", dt |-> 0]
    ELSE IF time_in < c.min_green THEN [action |-> "HOLD", dt |-> 1]
    ELSE IF ph = "NS" /\ qew > qns + c.bias_threshold
         THEN [action |-> "SWITCH", dt |-> 0]
    ELSE IF ph # "NS" /\ qns > qew + c.bias_threshold
         THEN [action |-> "SWITCH", dt |-> 0]
    ELSE [action |-> "HOLD", dt |-> 1]

\* Variant of ActuatedController.decide without the max_green guard
ActuatedDecideNoMax(c, ph, time_in, qns, qew, rwns, rwew) ==
    IF time_in < c.min_green THEN [action |-> "HOLD", dt |-> 1]
    ELSE IF ph = "NS" /\ rwew >= c.force_switch_wait /\ qew > 0
         THEN [action |-> "SWITCH", dt |-> 0]
    ELSE IF ph = "EW" /\ rwns >= c.force_switch_wait /\ qns > 0
         THEN [action |-> "SWITCH", dt |-> 0]
    ELSE IF ph = "NS" /\ qew > qns + c.bias_threshold
         THEN [action |-> "SWITCH", dt |-> 0]
    ELSE IF ph # "NS" /\ qns > qew + c.bias_threshold
         THEN [action |-> "SWITCH", dt |-> 0]
    ELSE [action |-> "HOLD", dt |-> 1]

\* Variant of ActuatedController.decide without the min_green guard
ActuatedDecideNoMin(c, ph, time_in, qns, qew, rwns, rwew) ==
    IF time_in >= c.max_green THEN [action |-> "SWITCH", dt |-> 0]
    ELSE IF ph = "NS" /\ rwew >= c.force_switch_wait /\ qew > 0
         THEN [action |-> "SWITCH", dt |-> 0]
    ELSE IF ph = "EW" /\ rwns >= c.force_switch_wait /\ qns > 0
         THEN [action |-> "SWITCH", dt |-> 0]
    ELSE IF ph = "NS" /\ qew > qns + c.bias_threshold
         THEN [action |-> "SWITCH", dt |-> 0]
    ELSE IF ph # "NS" /\ qns > qew + c.bias_threshold
         THEN [action |-> "SWITCH", dt |-> 0]
    ELSE [action |-> "HOLD", dt |-> 1]

\* Variant of ActuatedController.decide with the min_green guard tested
\* before the max_green guard
ActuatedDecideMinFirst(c, ph, time_in, qns, qew, rwns, rwew) ==
    IF time_in < c.min_green THEN [action |-> "HOLD", dt |-> 1]
    ELSE IF time_in >= c.max_green THEN [action |-> "SWITCH", dt |-> 0]
    ELSE IF ph = "NS" /\ rwew >= c.force_switch_wait /\ qew > 0
         THEN [action |-> "SWITCH", dt |-> 0]
    ELSE IF ph = "EW" /\ rwns >= c.force_switch_wait /\ qns > 0
         THEN [action |-> "SWITCH", dt |-> 0]
    ELSE IF ph = "NS" /\ qew > qns + c.bias_threshold
         THEN [action |-> "SWITCH", dt |-> 0]
    ELSE IF ph # "NS" /\ qns > qew + c.bias_threshold
         THEN [action |-> "SWITCH", dt |-> 0]
    ELSE [action |-> "HOLD", dt |-> 1]

\* ActuatedController.decide
ActuatedDecide(c, ph, time_in, qns, qew, rwns, rwew) ==
    IF time_in >= c.max_green THEN [action |-> "SWITCH", dt |-> 0]
    ELSE IF time_in < c.min_green THEN [action |-> "HOLD", dt |-> 1]
    ELSE IF ph = "NS" /\ rwew >= c.force_switch_wait /\ qew > 0
         THEN [action |-> "SWITCH", dt |-> 0]
    ELSE IF ph = "EW" /\ rwns >= c.force_switch_wait /\ qns > 0
         THEN [action |-> "SWITCH", dt |-> 0]
    ELSE IF ph = "NS" /\ qew > qns + c.bias_threshold
         THEN [action |-> "SWITCH", dt |-> 0]
    ELSE IF ph # "NS" /\ qns > qew + c.bias_threshold
         THEN [action |-> "SWITCH", dt |-> 0]
    ELSE [action |-> "HOLD", dt |-> 1]

\* self.model.predict(X)[0] for X = [[qns, qew, phase_is_ns, time_in,
\* red_wait_ns, red_wait_ew]]: the label of the classifier the controller holds
Predict(model, X) ==
    CASE model = "switch" -> 1
      [] model = "pressure" ->
            IF (X[3] = 1 /\ X[2] > X[1]) \/ (X[3] = 0 /\ X[1] > X[2]) THEN 1 ELSE 0
      [] OTHER -> 0

\* Variant of DecisionTreeTrafficController.decide with the guards in the
\* order of ActuatedController (max_green first)
DTDecideMaxFirst(c, ph, time_in, qns, qew, rwns, rwew) ==
    LET phase_is_ns == IF ph = "NS" THEN 1 ELSE 0
        X == <<qns, qew, phase_is_ns, time_in, rwns, rwew>>
    IN  IF time_in >= c.max_green THEN [action |-> "SWITCH", dt |-> 0]
        ELSE IF time_in < c.min_green THEN [action |-> "HOLD", dt |-> 1]
        ELSE IF Predict(c.model, X) = 1 THEN [action |-> "SWITCH", dt |-> 0]
        ELSE [action |-> "HOLD", dt |-> 1]

\* DecisionTreeTrafficController.decide
DTDecide(c, ph, time_in, qns, qew, rwns, rwew) ==
    LET phase_is_ns == IF ph = "NS" THEN 1 ELSE 0
        X == <<qns, qew, phase_is_ns, time_in, rwns, rwew>>
    IN  IF time_in < c.min_green THEN [action |-> "HOLD", dt |-> 1]
        ELSE IF time_in >= c.max_green THEN [action |-> "SWITCH", dt |-> 0]
        ELSE IF Predict(c.model, X) = 1 THEN [action |-> "SWITCH", dt |-> 0]
        ELSE [action |-> "HOLD", dt |-> 1]

\* controller.decide(inter, now), as signal_process calls it
Decide(c, ph, time_in, qns, qew, rwns, rwew) ==
    IF c.kind = "fixed" THEN FixedDecide(c, ph, time_in)
    ELSE IF c.kind = "dt" THEN DTDecide(c, ph, time_in, qns, qew, rwns, rwew)
    ELSE ActuatedDecide(c, ph, time_in, qns, qew, rwns, rwew)

-----------------------------------------------------------------------------
(* Kernel: the event queue *)

Before(e, f) ==
    \/ e.t < f.t
    \/ e.t = f.t /\ e.prio < f.prio
    \/ e.t = f.t /\ e.prio = f.prio /\ e.eid < f.eid

\* The queue is kept in pop order: heappop returns its first element.
NextEv == Head(queue)

\* heappush of one event
Push(q, e) ==
    LET k == Cardinality({j \in 1..Len(q) : Before(q[j], e)})
    IN  SubSeq(q, 1, k) \o <<e>> \o SubSeq(q, k + 1, Len(q))

\* The queue after the popped event's process has run and scheduled es, in order
RECURSIVE Sched(_, _)
Sched(q, es) == IF es = <<>> THEN q ELSE Sched(Push(q, Head(es)), Tail(es))

RECURSIVE QueueOf(_)
QueueOf(S) ==
    IF S = {} THEN <<>>
    ELSE LET e == CHOOSE x \in S : \A f \in S \ {x} : Before(x, f)
         IN  <<e>> \o QueueOf(S \ {e})

Ev(t, prio, id, type, proc, val) ==
    [t |-> t, prio |-> prio, eid |-> id, type |-> type, proc |-> proc, val |-> val]

\* env.timeout(delay), yielded by process p; id is the insertion number
Timeout(p, delay, id) == Ev(NextEv.t + delay, NORMAL, id, "timeout", p, NoVeh)

\* env.process(generator): the Initialize event of the new process
Initialize(p, t, id) == Ev(t, URGENT, id, "init", p, NoVeh)

Resumes(k) ==
    /\ running
    /\ queue # <<>>
    /\ NextEv.proc.k = k

-----------------------------------------------------------------------------
(* simpy.Store *)

\* Variant of Store._do_get that pops the newest item (items.pop())
StoreGetLast(s) == [item |-> s[Len(s)], rest |-> SubSeq(s, 1, Len(s) - 1)]

\* Variant of Store._do_get that hands out the first item and leaves it queued
StoreGetKeep(s) == [item |-> Head(s), rest |-> s]

\* Store._do_get: items.pop(0), the item handed to the getter and what is left
StoreGet(s) == [item |-> Head(s), rest |-> Tail(s)]

\* Variant of Store._do_put that inserts at the front (items.insert(0, item))
StorePrepend(s, v) == <<v>> \o s

\* Store._do_put: items.append(item) (capacity is unbounded)
StoreAppend(s, v) == Append(s, v)

-----------------------------------------------------------------------------
(* History of the fairness override: the time by which a red direction whose
   red_wait has reached force_switch_wait with a non-empty queue must be green *)

RedWait(rwns, rwew, d) == IF d = "NS" THEN rwns ELSE rwew

Starved(ph, rwns, rwew, its, d) ==
    /\ cfg.kind = "actuated"
    /\ ph # d
    /\ RedWait(rwns, rwew, d) >= cfg.force_switch_wait
    /\ Len(its[d]) > 0

Deadline(i, d, ph, ps, rwns, rwew, its, t) ==
    IF ~Starved(ph, rwns, rwew, its, d) THEN -1
    ELSE IF fair_deadline[i][d] # -1 THEN fair_deadline[i][d]
    ELSE IF t - ps >= cfg.min_green THEN t + 1
    ELSE t + (cfg.min_green - (t - ps)) + 1

Deadlines(i, ph, ps, rwns, rwew, its, t) ==
    [fair_deadline EXCEPT ![i] =
        [d \in Directions |-> Deadline(i, d, ph, ps, rwns, rwew, its, t)]]

-----------------------------------------------------------------------------
(* Intersection *)

\* Intersection.queues
Queues(i) == [ns |-> Len(items[i]["NS"]), ew |-> Len(items[i]["EW"])]

\* Variant of the decide() argument: the controller keeps the first
\* intersection it was given and reads that one
InterStateFirst(i) ==
    [phase |-> phase["A"], phase_start |-> phase_start["A"],
     q_ns |-> Len(items["A"]["NS"]), q_ew |-> Len(items["A"]["EW"]),
     red_wait_ns |-> red_wait_ns["A"], red_wait_ew |-> red_wait_ew["A"]]

\* The `inter` argument of controller.decide(self, now): what the
\* controllers read of it
InterState(i) ==
    [phase |-> phase[i], phase_start |-> phase_start[i],
     q_ns |-> Queues(i).ns, q_ew |-> Queues(i).ew,
     red_wait_ns |-> red_wait_ns[i], red_wait_ew |-> red_wait_ew[i]]

\* Intersection.signal_process: one iteration of the loop
SignalStep ==
    /\ Resumes("signal")
    /\ LET e == NextEv
           i == e.proc.who
           t == e.t
           q == Queues(i)
           time_in == t - phase_start[i]
           s == InterState(i)
           d == Decide(cfg, s.phase, t - s.phase_start, s.q_ns, s.q_ew,
                       s.red_wait_ns, s.red_wait_ew)
           ph == IF d.action = "SWITCH" THEN Other(phase[i]) ELSE phase[i]
           ps == IF d.action = "SWITCH" THEN t ELSE phase_start[i]
       IN  /\ now' = t
           /\ phase' = [phase EXCEPT ![i] = ph]
           /\ phase_start' = [phase_start EXCEPT ![i] = ps]
           /\ log_events' = Append(log_events,
                  [t |-> t, type |-> "signal", intersection |-> i, phase |-> ph,
                   q_ns |-> q.ns, q_ew |-> q.ew, action |-> d.action])
           /\ queue' = Sched(Tail(queue), <<Timeout(e.proc, d.dt, eid)>>)
           /\ eid' = eid + 1
           /\ dec' = [dec EXCEPT ![i] =
                  [n |-> dec[i].n + 1, t |-> t, time_in |-> time_in,
                   action |-> d.action, dt |-> d.dt, from |-> phase[i],
                   q_ns |-> q.ns, q_ew |-> q.ew,
                   red_wait_ns |-> red_wait_ns[i], red_wait_ew |-> red_wait_ew[i],
                   starved |-> Starved(phase[i], red_wait_ns[i], red_wait_ew[i],
                                       items[i], Other(phase[i]))]]
           /\ fair_deadline' = Deadlines(i, ph, ps, red_wait_ns[i], red_wait_ew[i],
                                         items[i], t)
    /\ UNCHANGED <<running, failed, cfg, red_wait_ns, red_wait_ew, items, get_queue,
                   veh, gen_i, done, snapshots, put_hist, oneVars, energyVars>>

\* Intersection.fairness_clock: one iteration of the loop
FairnessStep ==
    /\ Resumes("fairness")
    /\ LET e == NextEv
           i == e.proc.who
           t == e.t
           rwns == IF phase[i] = "NS" THEN 0 ELSE red_wait_ns[i] + 1
           rwew == IF phase[i] = "NS" THEN red_wait_ew[i] + 1 ELSE 0
       IN  /\ now' = t
           /\ red_wait_ns' = [red_wait_ns EXCEPT ![i] = rwns]
           /\ red_wait_ew' = [red_wait_ew EXCEPT ![i] = rwew]
           /\ queue' = Sched(Tail(queue), <<Timeout(e.proc, FairnessTick, eid)>>)
           /\ eid' = eid + 1
           /\ fair_deadline' = Deadlines(i, phase[i], phase_start[i], rwns, rwew,
                                         items[i], t)
    /\ UNCHANGED <<running, failed, cfg, phase, phase_start, items, get_queue, veh,
                   gen_i, log_events, done, snapshots, put_hist, dec,
                   oneVars, energyVars>>

\* Variant of the release loop's pause: half the service time
ReleasePauseShort(p, id) == Timeout(p, ServiceTime \div 2, id)

\* release_process: yield self.env.timeout(self.service_time)
ReleasePause(p, id) == Timeout(p, ServiceTime, id)

\* Variant of the release loop's test: get() whatever the queue holds
HasItemsAlways(s) == TRUE

\* Variant of the release loop's test: the queue is never seen non-empty
HasItemsNever(s) == FALSE

\* release_process: len(active_q.items) > 0
HasItems(s) == Len(s) > 0

\* Intersection.release_process, from the top of the loop: either the green
\* queue is seen empty and the process sleeps service_time, or it issues
\* get().  Store.get removes the first item at once and schedules the get
\* event; on an empty Store it leaves the process in the Store's get_queue.
ReleaseTick ==
    /\ Resumes("release")
    /\ NextEv.type \in {"init", "timeout"}
    /\ LET e == NextEv
           i == e.proc.who
           t == e.t
           active == phase[i]
       IN  /\ now' = t
           /\ IF HasItems(items[i][active])
              THEN IF items[i][active] # <<>>
                   THEN /\ items' = [items EXCEPT ![i][active] = StoreGet(@).rest]
                        /\ queue' = Sched(Tail(queue),
                               <<Ev(t, NORMAL, eid, "get", e.proc,
                                   StoreGet(items[i][active]).item)>>)
                        /\ eid' = eid + 1
                        /\ get_queue' = get_queue
                   ELSE /\ get_queue' = [get_queue EXCEPT ![i][active] =
                                            Append(@, e.proc)]
                        /\ queue' = Tail(queue)
                        /\ UNCHANGED <<items, eid>>
              ELSE /\ queue' = Sched(Tail(queue), <<ReleasePause(e.proc, eid)>>)
                   /\ eid' = eid + 1
                   /\ UNCHANGED <<items, get_queue>>
    /\ UNCHANGED <<running, failed, cfg, phase, phase_start, red_wait_ns, red_wait_ew,
                   veh, gen_i, log_events, done, snapshots, put_hist, dec,
                   fair_deadline, oneVars, energyVars>>

\* Variant of Event.succeed: the waiters are scheduled one time unit later
SucceedLate(v, t, id) == Ev(t + 1, NORMAL, id, "released", VehProc(v), v)

\* Vehicle.release: self.released.succeed() schedules the event, and with it
\* the waiting vehicle_process, at the current time
Succeed(v, t, id) == Ev(t, NORMAL, id, "released", VehProc(v), v)

\* Variant of Vehicle.release with the subtraction reversed
LegWaitReversed(t, entered) == entered - t

\* Vehicle.release: the wait added for this leg
LegWait(t, entered) == t - entered

\* Intersection.release_process resumed with the vehicle its get() returned:
\* v.release(now), the release record, then timeout(service_time).
ReleaseResume ==
    /\ Resumes("release")
    /\ NextEv.type = "get"
    /\ LET e == NextEv
           i == e.proc.who
           t == e.t
           v == e.val
           w == LegWait(t, veh[v].last_queue_enter)
       IN  /\ now' = t
           /\ IF veh[v].released = "pending"
              THEN /\ veh' = [veh EXCEPT ![v].total_wait = @ + w,
                                         ![v].waits = Append(@, w),
                                         ![v].released = "triggered"]
                   /\ log_events' = Append(log_events,
                          [t |-> t, type |-> "release", intersection |-> i,
                           vehicle |-> v, phase |-> phase[i]])
                   /\ queue' = Sched(Tail(queue),
                          <<Succeed(v, t, eid), ReleasePause(e.proc, eid + 1)>>)
                   /\ eid' = eid + 2
                   /\ UNCHANGED <<running, failed>>
              ELSE \* Event.succeed on an event already triggered raises
                   /\ veh' = [veh EXCEPT ![v].total_wait = @ + w,
                                         ![v].waits = Append(@, w)]
                   /\ failed' = TRUE
                   /\ running' = FALSE
                   /\ queue' = Tail(queue)
                   /\ UNCHANGED <<log_events, eid>>
    /\ UNCHANGED <<cfg, phase, phase_start, red_wait_ns, red_wait_ew, items, get_queue,
                   gen_i, done, snapshots, put_hist, dec, fair_deadline,
                   oneVars, energyVars>>

-----------------------------------------------------------------------------
(* Vehicles *)

\* Vehicle.__init__; joins is the history of the instants of the vehicle's
\* puts, one per leg joined
NewVehicle(route) ==
    [route |-> route, leg |-> 0, total_wait |-> 0, waits |-> <<>>, joins |-> <<>>,
     last_queue_enter |-> -1, released |-> "none", waiting |-> FALSE, pc |-> "init"]

\* Variant of join_queue recording the time the travel began
JoinTimeEarly(t) == t - TravelMin

\* Vehicle.join_queue: the time recorded as last_queue_enter
JoinTime(t) == t

\* Variant of vehicle_process with log_done.append inside the route loop
AfterReleaseLogsEveryLeg(v, vv, t, delay, e) ==
    /\ done' = Append(done, [vehicle |-> v, finish_t |-> t,
                             total_wait_s |-> vv.total_wait])
    /\ IF vv.leg < Len(vv.route)
       THEN /\ veh' = [veh EXCEPT ![v] = [vv EXCEPT !.leg = @ + 1, !.pc = "travel",
                                                     !.waiting = FALSE]]
            /\ queue' = Sched(Tail(queue), <<Timeout(VehProc(v), delay, eid)>>)
            /\ eid' = eid + 1
       ELSE /\ veh' = [veh EXCEPT ![v] = [vv EXCEPT !.pc = "done", !.waiting = FALSE]]
            /\ queue' = Tail(queue)
            /\ eid' = eid

\* Variant of vehicle_process whose loop does not move on to the next leg
AfterReleaseSameLeg(v, vv, t, delay, e) ==
    /\ veh' = [veh EXCEPT ![v] = [vv EXCEPT !.pc = "travel", !.waiting = FALSE]]
    /\ queue' = Sched(Tail(queue), <<Timeout(VehProc(v), delay, eid)>>)
    /\ eid' = eid + 1
    /\ done' = done

\* vehicle_process after `yield v.released` of leg veh[v].leg has returned at
\* time t: the next leg's travel timeout, or the completion record.
\* vv is the vehicle record as updated so far, id the insertion number.
AfterRelease(v, vv, t, delay, e) ==
    IF vv.leg < Len(vv.route)
    THEN /\ veh' = [veh EXCEPT ![v] = [vv EXCEPT !.leg = @ + 1, !.pc = "travel",
                                                  !.waiting = FALSE]]
         /\ queue' = Sched(Tail(queue), <<Timeout(VehProc(v), delay, eid)>>)
         /\ eid' = eid + 1
         /\ done' = done
    ELSE /\ veh' = [veh EXCEPT ![v] = [vv EXCEPT !.pc = "done", !.waiting = FALSE]]
         /\ queue' = Tail(queue)
         /\ eid' = eid
         /\ done' = Append(done, [vehicle |-> v, finish_t |-> t,
                                  total_wait_s |-> vv.total_wait])

\* vehicle_process started: the first leg's travel timeout
VehicleStart ==
    /\ Resumes("veh")
    /\ NextEv.type = "init"
    /\ \E delay \in TravelDelays :
         LET e == NextEv
             v == VehOf(e.proc)
         IN  /\ now' = e.t
             /\ veh' = [veh EXCEPT ![v].leg = 1, ![v].pc = "travel"]
             /\ queue' = Sched(Tail(queue), <<Timeout(e.proc, delay, eid)>>)
             /\ eid' = eid + 1
    /\ UNCHANGED <<running, failed, cfg, phase, phase_start, red_wait_ns, red_wait_ew,
                   items, get_queue, gen_i, log_events, done, snapshots, put_hist,
                   dec, fair_deadline, oneVars, energyVars>>

\* vehicle_process after the travel timeout: v.join_queue(env.now), then put(v)
\* on the Store of the leg's approach; the put succeeds at once.
VehicleJoin ==
    /\ Resumes("veh")
    /\ NextEv.type = "timeout"
    /\ LET e == NextEv
           v == VehOf(e.proc)
           t == e.t
           leg == veh[v].route[veh[v].leg]
           i == leg.inter
           d == leg.approach
           its == [items[i] EXCEPT ![d] = StoreAppend(@, v)]
       IN  /\ now' = t
           /\ veh' = [veh EXCEPT ![v].last_queue_enter = JoinTime(t),
                                 ![v].joins = Append(@, t),
                                 ![v].released = "pending",
                                 ![v].waiting = FALSE,
                                 ![v].pc = "put"]
           /\ items' = [items EXCEPT ![i] = its]
           /\ put_hist' = [put_hist EXCEPT ![i][d] = Append(@, v)]
           /\ queue' = Sched(Tail(queue), <<Ev(t, NORMAL, eid, "put", e.proc, v)>>)
           /\ eid' = eid + 1
           /\ fair_deadline' = Deadlines(i, phase[i], phase_start[i], red_wait_ns[i],
                                         red_wait_ew[i], its, t)
    /\ UNCHANGED <<running, failed, cfg, phase, phase_start, red_wait_ns, red_wait_ew,
                   get_queue, gen_i, log_events, done, snapshots, dec,
                   oneVars, energyVars>>

\* The put event is processed: the vehicle process resumes and yields
\* v.released; an event already processed does not suspend it.
\* (Store._trigger_get, the put event's first callback, serves pending
\* getters; release_process leaves none, see get_queue.)
VehiclePutDone ==
    /\ Resumes("veh")
    /\ NextEv.type = "put"
    /\ get_queue[veh[NextEv.val].route[veh[NextEv.val].leg].inter]
                [veh[NextEv.val].route[veh[NextEv.val].leg].approach] = <<>>
    /\ \E delay \in TravelDelays :
         LET e == NextEv
             v == e.val
         IN  /\ now' = e.t
             /\ IF veh[v].released = "processed"
                THEN AfterRelease(v, veh[v], e.t, delay, e)
                ELSE /\ veh' = [veh EXCEPT ![v].waiting = TRUE, ![v].pc = "await"]
                     /\ queue' = Tail(queue)
                     /\ UNCHANGED <<eid, done>>
    /\ UNCHANGED <<running, failed, cfg, phase, phase_start, red_wait_ns, red_wait_ew,
                   items, get_queue, gen_i, log_events, snapshots, put_hist, dec,
                   fair_deadline, oneVars, energyVars>>

\* The completion event v.released is processed: its waiters resume.
VehicleReleased ==
    /\ Resumes("veh")
    /\ NextEv.type = "released"
    /\ \E delay \in TravelDelays :
         LET e == NextEv
             v == e.val
             vv == [veh[v] EXCEPT !.released = "processed"]
         IN  /\ now' = e.t
             /\ IF veh[v].waiting
                THEN AfterRelease(v, vv, e.t, delay, e)
                ELSE /\ veh' = [veh EXCEPT ![v] = vv]
                     /\ queue' = Tail(queue)
                     /\ UNCHANGED <<eid, done>>
    /\ UNCHANGED <<running, failed, cfg, phase, phase_start, red_wait_ns, red_wait_ew,
                   items, get_queue, gen_i, log_events, snapshots, put_hist, dec,
                   fair_deadline, oneVars, energyVars>>

-----------------------------------------------------------------------------
(* sim_one_intersection.py: the timer-based intersection *)

\* sim_one_intersection FixedTimeController.next_phase
NextPhase(c, current) ==
    IF current = "NS" THEN [phase |-> "EW", dur |-> c.green_ew]
    ELSE [phase |-> "NS", dur |-> c.green_ns]

Max(a, b) == IF a >= b THEN a ELSE b

\* release_process: the Store of the green approach
OneActive == IF one.phase = "NS" THEN "q_ns" ELSE "q_ew"

\* Intersection.signal_process up to its first timeout
OneSignalStart ==
    /\ Resumes("signal1")
    /\ NextEv.type = "init"
    /\ LET t == NextEv.t
           ends == t + cfg.green_ns
       IN  /\ now' = t
           /\ one' = [one EXCEPT !.phase = "NS", !.phase_ends_at = ends]
           /\ queue' = Sched(Tail(queue),
                  <<Timeout(NextEv.proc, Max(0, ends - t), eid)>>)
           /\ eid' = eid + 1
    /\ UNCHANGED <<running, failed, cfg, gridVars, cars, done_list, energyVars>>

\* Intersection.signal_process after its timeout: next_phase, the new
\* phase_ends_at, and the timeout to it
OneSignalStep ==
    /\ Resumes("signal1")
    /\ NextEv.type = "timeout"
    /\ LET t == NextEv.t
           np == NextPhase(cfg, one.phase)
           ends == t + np.dur
       IN  /\ now' = t
           /\ one' = [one EXCEPT !.phase = np.phase, !.phase_ends_at = ends]
           /\ queue' = Sched(Tail(queue),
                  <<Timeout(NextEv.proc, Max(0, ends - t), eid)>>)
           /\ eid' = eid + 1
    /\ UNCHANGED <<running, failed, cfg, gridVars, cars, done_list, energyVars>>

\* Intersection.release_process from the top of its loop: get() on the green
\* Store if it holds a vehicle, else timeout(service_time)
OneReleaseTick ==
    /\ Resumes("release1")
    /\ NextEv.type \in {"init", "timeout"}
    /\ LET e == NextEv
           active == OneActive
       IN  /\ now' = e.t
           /\ IF Len(one[active]) > 0
              THEN /\ one' = [one EXCEPT ![active] = StoreGet(@).rest]
                   /\ queue' = Sched(Tail(queue),
                          <<Ev(e.t, NORMAL, eid, "get", e.proc,
                              StoreGet(one[active]).item)>>)
              ELSE /\ one' = one
                   /\ queue' = Sched(Tail(queue),
                          <<Timeout(e.proc, ServiceTime, eid)>>)
           /\ eid' = eid + 1
    /\ UNCHANGED <<running, failed, cfg, gridVars, cars, done_list, energyVars>>

\* Intersection.release_process resumed with the vehicle of its get():
\* depart_t, wait_s, then it yields the event v["done"].succeed() returns
OneReleaseResume ==
    /\ Resumes("release1")
    /\ NextEv.type = "get"
    /\ LET e == NextEv
           v == e.val
       IN  /\ now' = e.t
           /\ cars' = [cars EXCEPT ![v].depart_t = e.t,
                                   ![v].wait_s = e.t - cars[v].arrive_t,
                                   ![v].done = "triggered"]
           /\ queue' = Sched(Tail(queue), <<Ev(e.t, NORMAL, eid, "done", e.proc, v)>>)
           /\ eid' = eid + 1
    /\ UNCHANGED <<running, failed, cfg, gridVars, one, done_list, energyVars>>

\* sim_one_intersection wait_for_done past its yield: the completion record
DoneRecord(v, c) ==
    [id |-> v, approach |-> c.approach, arrive_t |-> c.arrive_t,
     depart_t |-> c.depart_t, wait_s |-> c.wait_s]

\* The event v["done"] is processed: wait_for_done, if it waits on the event,
\* appends the completion record, and release_process goes on to
\* timeout(service_time)
OneDone ==
    /\ Resumes("release1")
    /\ NextEv.type = "done"
    /\ LET e == NextEv
           v == e.val
       IN  /\ now' = e.t
           /\ cars' = [cars EXCEPT ![v].done = "processed", ![v].waiting = FALSE]
           /\ done_list' = IF cars[v].waiting
                           THEN Append(done_list, DoneRecord(v, cars[v]))
                           ELSE done_list
           /\ queue' = Sched(Tail(queue), <<Timeout(e.proc, ServiceTime, eid)>>)
           /\ eid' = eid + 1
    /\ UNCHANGED <<running, failed, cfg, gridVars, one, energyVars>>

\* vehicle_generator after its timeout: the vehicle dict with arrive_t = now,
\* then put() on the Store of its approach
OneArrive ==
    /\ Resumes("gen1")
    /\ NextEv.type = "timeout"
    /\ LET e == NextEv
           approach == e.proc.who
           v == [who |-> approach, n |-> e.proc.n + 1]
           q == IF approach = "NS" THEN "q_ns" ELSE "q_ew"
       IN  /\ now' = e.t
           /\ cars' = (v :> [approach |-> approach, arrive_t |-> e.t, depart_t |-> -1,
                             wait_s |-> -1, done |-> "pending", waiting |-> FALSE])
                      @@ cars
           /\ one' = [one EXCEPT ![q] = StoreAppend(@, v)]
           /\ queue' = Sched(Tail(queue),
                  <<Ev(e.t, NORMAL, eid, "put", Proc("gen1", approach, v.n), v)>>)
           /\ eid' = eid + 1
    /\ UNCHANGED <<running, failed, cfg, gridVars, done_list, energyVars>>

\* vehicle_generator resumed by its put event: env.process(wait_for_done).
\* The model gives every generator one arrival and draws no further gap.
OnePutDone ==
    /\ Resumes("gen1")
    /\ NextEv.type = "put"
    /\ LET e == NextEv
           v == e.val
       IN  /\ now' = e.t
           /\ queue' = Sched(Tail(queue),
                  <<Initialize(Proc("wait1", v.who, v.n), e.t, eid)>>)
           /\ eid' = eid + 1
    /\ UNCHANGED <<running, failed, cfg, gridVars, oneVars, energyVars>>

\* wait_for_done started: it yields v["done"], and appends the completion
\* record at once if the event is already processed
OneWaitStart ==
    /\ Resumes("wait1")
    /\ NextEv.type = "init"
    /\ LET e == NextEv
           v == VehOf(e.proc)
       IN  /\ now' = e.t
           /\ IF cars[v].done = "processed"
              THEN /\ done_list' = Append(done_list, DoneRecord(v, cars[v]))
                   /\ cars' = cars
              ELSE /\ cars' = [cars EXCEPT ![v].waiting = TRUE]
                   /\ done_list' = done_list
           /\ queue' = Tail(queue)
    /\ UNCHANGED <<eid, running, failed, cfg, gridVars, one, energyVars>>

-----------------------------------------------------------------------------
(* sim_energy_zones.py: priority allocation over a capacity budget *)

\* Power is counted in units of 1/10000 kW, which makes the factors 0.35,
\* 0.10 and their product exact on whole-kW budgets
PerKw == 10000

Kw(n) == n * PerKw

\* x times a factor given in hundredths
Times(x, hundredths) == (x * hundredths) \div 100

Min(a, b) == IF a <= b THEN a ELSE b

\* ZoneConfig; the peak multipliers are in hundredths
ZoneConfig(name, priority, base_kw, flex_kw, morning, evening) ==
    [name |-> name, priority |-> priority, base_kw |-> Kw(base_kw),
     flex_kw |-> Kw(flex_kw), morning_peak_mult |-> morning,
     evening_peak_mult |-> evening]

\* EnergyZone.__init__
EnergyZone(c) ==
    [cfg |-> c, request_kw |-> 0, flex_request_kw |-> 0, served_kw |-> 0,
     unmet_kw |-> 0, flex_served_kw |-> 0, flex_unmet_kw |-> 0]

\* compute_demand: base_mult, in hundredths
BaseMult(c, hour) ==
    IF 7 <= hour /\ hour <= 10 THEN c.morning_peak_mult
    ELSE IF 17 <= hour /\ hour <= 21 THEN c.evening_peak_mult
    ELSE IF 11 <= hour /\ hour <= 16 THEN 110
    ELSE IF 0 <= hour /\ hour <= 5 THEN 85
    ELSE 100

\* compute_demand: flex_mult, in hundredths
FlexMult(hour) == IF 0 <= hour /\ hour <= 5 THEN 65 ELSE 100

\* EnergyZone.compute_demand
ComputeDemand(z, hour) ==
    [z EXCEPT !.served_kw = 0, !.unmet_kw = 0, !.flex_served_kw = 0,
              !.flex_unmet_kw = 0,
              !.request_kw = Max(0, Times(z.cfg.base_kw, BaseMult(z.cfg, hour))),
              !.flex_request_kw = Max(0, Times(z.cfg.flex_kw, FlexMult(hour)))]

\* Variant of allocate serving the zones in list order
RankInList(zs, i) == i

\* Position of zone i in sorted(self.zones, key=priority): the sort is
\* stable, zones of equal priority keep their list order
Rank(zs, i) ==
    1 + Cardinality({j \in 1..Len(zs) :
                       \/ zs[j].cfg.priority < zs[i].cfg.priority
                       \/ zs[j].cfg.priority = zs[i].cfg.priority /\ j < i})

\* The zone at position k of the serving order
AtRank(zs, k) == CHOOSE i \in 1..Len(zs) : Rank(zs, i) = k

\* allocate, step 1: `for z in self.zones: z.compute_demand(hour)`
RECURSIVE UpdateDemands(_, _)
UpdateDemands(zs, hour) ==
    IF zs = <<>> THEN <<>>
    ELSE <<ComputeDemand(Head(zs), hour)>> \o UpdateDemands(Tail(zs), hour)

\* allocate, step 2: the loop serving base demand by priority, from position
\* k of the serving order on, with `remaining` left of capacity_kw
RECURSIVE ServeBase(_, _, _)
ServeBase(zs, k, remaining) ==
    IF k > Len(zs) THEN [zones |-> zs, remaining |-> remaining]
    ELSE LET i == AtRank(zs, k)
             served == Min(zs[i].request_kw, remaining)
         IN  ServeBase([zs EXCEPT ![i].served_kw = served,
                                  ![i].unmet_kw = Max(0, zs[i].request_kw - served)],
                       k + 1, remaining - served)

\* Variant of allocate taking the flexible budget from the whole capacity
FlexBudgetOfCapacity(remaining, hour, pred, capacity) ==
    IF hour < 7 \/ hour >= 22 THEN capacity ELSE Times(capacity, 35)

\* allocate, step 3: the budget for flexible demand, from what base demand
\* left, the hour and the forecast (pred = -1 stands for None)
FlexBudget(remaining, hour, pred, capacity) ==
    LET off_peak == hour < 7 \/ hour >= 22
        b0 == Max(0, remaining)
        b1 == IF ~off_peak THEN Times(b0, 35) ELSE b0
        headroom_next == capacity - pred
    IN  IF pred = -1 THEN b1
        ELSE IF headroom_next < Times(capacity, 10) THEN Times(b1, 10)
        ELSE IF headroom_next < Times(capacity, 25) THEN Times(b1, 35)
        ELSE b1

\* allocate, step 3: the loop serving flexible demand by priority, from
\* position k of the serving order on, with flex_remaining left of the budget
RECURSIVE ServeFlex(_, _, _)
ServeFlex(zs, k, flex_remaining) ==
    IF k > Len(zs) THEN zs
    ELSE LET i == AtRank(zs, k)
             flex_served == Min(zs[i].flex_request_kw, flex_remaining)
         IN  ServeFlex([zs EXCEPT ![i].flex_served_kw = flex_served,
                                  ![i].flex_unmet_kw =
                                      Max(0, zs[i].flex_request_kw - flex_served)],
                       k + 1, flex_remaining - flex_served)

\* The sum of field f over the zones zs
RECURSIVE Total(_, _)
Total(zs, f) == IF zs = <<>> THEN 0 ELSE Head(zs)[f] + Total(Tail(zs), f)

\* allocate: hour of the day at time t
HourAt(t) == (mgr.start_hour + (t \div 3600)) % 24

\* Values the forecast model's prediction of the next total request takes in
\* the model: well below, near and above the capacity
Predictions(capacity) ==
    {Times(capacity, 50), Times(capacity, 80), Times(capacity, 95),
     Times(capacity, 120)}

\* energy_process: one iteration, mgr.allocate then timeout(tick_s)
EnergyTick ==
    /\ Resumes("energy")
    /\ \E pred \in (IF mgr.forecast THEN Predictions(mgr.capacity_kw) ELSE {-1}) :
         LET t == NextEv.t
             hour == HourAt(t)
             demand == UpdateDemands(zones, hour)
             base == ServeBase(demand, 1, mgr.capacity_kw)
             budget == FlexBudget(base.remaining, hour, pred, mgr.capacity_kw)
             served == ServeFlex(base.zones, 1, budget)
         IN  /\ now' = t
             /\ zones' = served
             /\ log_rows' = Append(log_rows,
                    [t_s |-> t, hour |-> hour, pred_next_total_req_kw |-> pred,
                     capacity_kw |-> mgr.capacity_kw,
                     total_req_kw |-> Total(demand, "request_kw"),
                     total_served_kw |-> Total(base.zones, "served_kw"),
                     total_unmet_kw |-> Total(base.zones, "unmet_kw"),
                     total_flex_req_kw |-> Total(demand, "flex_request_kw"),
                     total_flex_served_kw |-> Total(served, "flex_served_kw"),
                     total_flex_unmet_kw |-> Total(served, "flex_unmet_kw"),
                     zones |-> served])
             /\ queue' = Sched(Tail(queue), <<Timeout(NextEv.proc, mgr.tick_s, eid)>>)
             /\ eid' = eid + 1
    /\ UNCHANGED <<running, failed, cfg, gridVars, oneVars, mgr>>

-----------------------------------------------------------------------------
(* Arrival generators, monitor, horizon *)

Leg(i, d) == [inter |-> i, approach |-> d]

\* run: entry_w2e_top, entry_w2e_bottom, entry_n2s_left, entry_n2s_right
EntryRoute(en) ==
    CASE en = "W2E_T" -> <<Leg("A", "EW"), Leg("B", "EW")>>
      [] en = "W2E_B" -> <<Leg("C", "EW"), Leg("D", "EW")>>
      [] en = "N2S_L" -> <<Leg("A", "NS"), Leg("C", "NS")>>
      [] en = "N2S_R" -> <<Leg("B", "NS"), Leg("D", "NS")>>

\* Vehicles created so far: the sum of the four generators' counters
Spawned == gen_i["W2E_T"] + gen_i["W2E_B"] + gen_i["N2S_L"] + gen_i["N2S_R"]

\* poisson_generator started: the first inter-arrival gap
GeneratorStart ==
    /\ Resumes("gen")
    /\ NextEv.type = "init"
    /\ \E gap \in Gaps :
         /\ now' = NextEv.t
         /\ queue' = Sched(Tail(queue), <<Timeout(NextEv.proc, gap, eid)>>)
         /\ eid' = eid + 1
    /\ UNCHANGED <<running, failed, cfg, phase, phase_start, red_wait_ns, red_wait_ew,
                   items, get_queue, veh, gen_i, log_events, done, snapshots,
                   put_hist, dec, fair_deadline, oneVars, energyVars>>

\* poisson_generator after a gap: i += 1, a new Vehicle with the entry's
\* route, env.process(vehicle_process(...)), then the next gap.  The model
\* stops drawing gaps once MaxVehicles vehicles exist.
GeneratorSpawn ==
    /\ Resumes("gen")
    /\ NextEv.type = "timeout"
    /\ Spawned < MaxVehicles
    /\ \E gap \in Gaps :
         LET e == NextEv
             en == e.proc.who
             v == [who |-> en, n |-> gen_i[en] + 1]
         IN  /\ now' = e.t
             /\ gen_i' = [gen_i EXCEPT ![en] = @ + 1]
             /\ veh' = (v :> NewVehicle(EntryRoute(en))) @@ veh
             /\ queue' = Sched(Tail(queue),
                    <<Initialize(VehProc(v), e.t, eid)>> \o
                    (IF Spawned + 1 < MaxVehicles
                     THEN <<Timeout(e.proc, gap, eid + 1)>> ELSE <<>>))
             /\ eid' = eid + 2
    /\ UNCHANGED <<running, failed, cfg, phase, phase_start, red_wait_ns, red_wait_ew,
                   items, get_queue, log_events, done, snapshots, put_hist, dec,
                   fair_deadline, oneVars, energyVars>>

\* Bound of the model: a generator that wakes with MaxVehicles vehicles
\* already created is dropped.
GeneratorCapped ==
    /\ Resumes("gen")
    /\ NextEv.type = "timeout"
    /\ Spawned >= MaxVehicles
    /\ now' = NextEv.t
    /\ queue' = Tail(queue)
    /\ UNCHANGED <<eid, running, failed, cfg, phase, phase_start, red_wait_ns,
                   red_wait_ew, items, get_queue, veh, gen_i, log_events, done,
                   snapshots, put_hist, dec, fair_deadline, oneVars, energyVars>>

\* monitor: one row, then timeout(every_s)
MonitorStep ==
    /\ Resumes("monitor")
    /\ now' = NextEv.t
    /\ snapshots' = Append(snapshots,
           [t |-> NextEv.t,
            row |-> [i \in DOMAIN phase |->
                       [q_ns |-> Queues(i).ns, q_ew |-> Queues(i).ew,
                        phase |-> phase[i]]]])
    /\ queue' = Sched(Tail(queue), <<Timeout(NextEv.proc, MonitorEvery, eid)>>)
    /\ eid' = eid + 1
    /\ UNCHANGED <<running, failed, cfg, phase, phase_start, red_wait_ns, red_wait_ew,
                   items, get_queue, veh, gen_i, log_events, done,
                   put_hist, dec, fair_deadline, oneVars, energyVars>>

\* env.run(until=horizon): the stop event, scheduled URGENT at the horizon,
\* ends the run when it is processed.
Stop ==
    /\ Resumes("stop")
    /\ now' = NextEv.t
    /\ running' = FALSE
    /\ queue' = Tail(queue)
    /\ UNCHANGED <<eid, failed, cfg, phase, phase_start, red_wait_ns, red_wait_ew,
                   items, get_queue, veh, gen_i, log_events, done, snapshots,
                   put_hist, dec, fair_deadline, oneVars, energyVars>>

-----------------------------------------------------------------------------
(* run(): build_grid_2x2, the four generators, the monitor, env.run *)

\* Controllers the grid is built with.  build_grid_2x2 passes
\* FixedTimeController(20, 20), ActuatedController(8, 40, 4, 60) or
\* DecisionTreeTrafficController(model_path, 8, 40); the model runs
\* scaled-down values of the first two.  (Controllers built directly, among
\* them ones with min_green > max_green, are in DecideConfigs.)
Configs ==
    {FixedCfg(4, 4), ActuatedCfg(2, 12, 4, 2)}

InterNo(i) == CASE i = "A" -> 0 [] i = "B" -> 1 [] i = "C" -> 2 [] i = "D" -> 3
EntryNo(en) ==
    CASE en = "W2E_T" -> 0 [] en = "W2E_B" -> 1 [] en = "N2S_L" -> 2 [] en = "N2S_R" -> 3

\* Intersection.__init__: env.process of signal, release and fairness, in
\* that order; base is the insertion number of the first.
InterInits(i, base) ==
    {Initialize(Proc("signal", i, 0), 0, base),
     Initialize(Proc("release", i, 0), 0, base + 1),
     Initialize(Proc("fairness", i, 0), 0, base + 2)}

StopEv(at, id) == Ev(at, URGENT, id, "stop", Proc("stop", "", 0), NoVeh)

NoDecision == [n |-> 0, t |-> 0, time_in |-> 0, action |-> "HOLD", dt |-> 1,
               from |-> "NS", q_ns |-> 0, q_ew |-> 0, red_wait_ns |-> 0,
               red_wait_ew |-> 0, starved |-> FALSE]

InitInters(I) ==
    /\ phase = [i \in I |-> "NS"]
    /\ phase_start = [i \in I |-> 0]
    /\ red_wait_ns = [i \in I |-> 0]
    /\ red_wait_ew = [i \in I |-> 0]
    /\ items = [i \in I |-> [d \in Directions |-> <<>>]]
    /\ get_queue = [i \in I |-> [d \in Directions |-> <<>>]]
    /\ put_hist = [i \in I |-> [d \in Directions |-> <<>>]]
    /\ dec = [i \in I |-> NoDecision]
    /\ fair_deadline = [i \in I |-> [d \in Directions |-> -1]]
    /\ log_events = <<>>
    /\ done = <<>>
    /\ snapshots = <<>>
    /\ now = 0

\* run() when the controller's constructor raised inside build_grid_2x2: the
\* exception leaves run() before any Intersection or process exists.
InitAborted ==
    /\ InitInters({})
    /\ veh = <<>>
    /\ gen_i = [en \in Entries |-> 0]
    /\ queue = <<>>
    /\ eid = 0
    /\ running = FALSE
    /\ failed = TRUE

\* Controllers whose model_path holds no loadable classifier
UnloadableConfigs == {DTCfg("missing", 8, 40), DTCfg("corrupt", 8, 40)}

\* sim_one_intersection Intersection.__init__
NewOne == [phase |-> "NS", phase_ends_at |-> 0, q_ns |-> <<>>, q_ew |-> <<>>]

\* The program run is not sim_one_intersection: its objects stay as new
InitNoOne ==
    /\ one = NewOne
    /\ cars = <<>>
    /\ done_list = <<>>

\* The program run is not sim_energy_zones
InitNoEnergy ==
    /\ zones = <<>>
    /\ mgr = [capacity_kw |-> 0, forecast |-> FALSE, start_hour |-> 0, tick_s |-> 0]
    /\ log_rows = <<>>

Init ==
    /\ InitNoOne
    /\ InitNoEnergy
    /\ cfg \in Configs \cup UnloadableConfigs
    /\ IF ~cfg.loaded THEN InitAborted
       ELSE /\ InitInters(GridIntersections)
            /\ veh = <<>>
            /\ gen_i = [en \in Entries |-> 0]
            /\ queue = QueueOf(
                   UNION {InterInits(i, 3 * InterNo(i)) : i \in GridIntersections}
                   \cup {Initialize(Proc("gen", en, 0), 0, 12 + EntryNo(en)) :
                             en \in Entries}
                   \cup {Initialize(Proc("monitor", "", 0), 0, 16)}
                   \cup {StopEv(Horizon, 17)})
            /\ eid = 18
            /\ running = TRUE
            /\ failed = FALSE

Next ==
    \/ SignalStep
    \/ FairnessStep
    \/ ReleaseTick
    \/ ReleaseResume
    \/ VehicleStart
    \/ VehicleJoin
    \/ VehiclePutDone
    \/ VehicleReleased
    \/ GeneratorStart
    \/ GeneratorSpawn
    \/ GeneratorCapped
    \/ MonitorStep
    \/ Stop

Spec == Init /\ [][Next]_vars

\* run(controller_kind="actuated"), the default kind: the grid under the
\* actuated controller alone
InitActuated ==
    /\ Init
    /\ cfg.kind = "actuated"

SpecActuated == InitActuated /\ [][Next]_vars

-----------------------------------------------------------------------------
(* A single Intersection under FixedTimeController, driven by two vehicles
   with one-leg routes: one on the NS approach and one on the EW approach,
   each joining its queue when its travel timeout ends. *)

GreenNsDefault == 20
GreenEwDefault == 20

ScenarioConfigs == {FixedCfg(GreenNsDefault, GreenEwDefault), FixedCfg(3, 5)}
ScenarioJoins == {4, 5, 6}

VehNS == [who |-> "NS", n |-> 1]
VehEW == [who |-> "EW", n |-> 1]

Travelling(route) == [NewVehicle(route) EXCEPT !.leg = 1, !.pc = "travel"]

InitScenario ==
    /\ InitNoOne
    /\ InitNoEnergy
    /\ cfg \in ScenarioConfigs
    /\ InitInters({"A"})
    /\ running = TRUE
    /\ failed = FALSE
    /\ veh = (VehNS :> Travelling(<<Leg("A", "NS")>>))
             @@ (VehEW :> Travelling(<<Leg("A", "EW")>>))
    /\ gen_i = [en \in Entries |-> 0]
    /\ \E jn \in ScenarioJoins, je \in ScenarioJoins :
         queue = QueueOf(InterInits("A", 0)
                         \cup {Ev(jn, NORMAL, 3, "timeout", VehProc(VehNS), NoVeh),
                               Ev(je, NORMAL, 4, "timeout", VehProc(VehEW), NoVeh),
                               StopEv(ScenarioHorizon, 5)})
    /\ eid = 6

NextScenario ==
    \/ SignalStep
    \/ FairnessStep
    \/ ReleaseTick
    \/ ReleaseResume
    \/ VehicleJoin
    \/ VehiclePutDone
    \/ VehicleReleased
    \/ Stop

SpecScenario == InitScenario /\ [][NextScenario]_vars

\* build_grid_2x2: the controllers of controller_kind "fixed" and "actuated"
DefaultConfigs == {FixedCfg(GreenNsDefault, GreenEwDefault), ActuatedCfg(8, 40, 4, 60)}

VehEW2 == [who |-> "EW", n |-> 2]

\* One intersection under a default controller; one vehicle joins on NS and
\* two on EW, at times drawn from ScenarioJoins, the second EW vehicle not
\* before the first.
InitLive ==
    /\ InitNoOne
    /\ InitNoEnergy
    /\ cfg \in DefaultConfigs
    /\ InitInters({"A"})
    /\ running = TRUE
    /\ failed = FALSE
    /\ veh = (VehNS :> Travelling(<<Leg("A", "NS")>>))
             @@ (VehEW :> Travelling(<<Leg("A", "EW")>>))
             @@ (VehEW2 :> Travelling(<<Leg("A", "EW")>>))
    /\ gen_i = [en \in Entries |-> 0]
    /\ \E jn \in ScenarioJoins, je \in ScenarioJoins, je2 \in ScenarioJoins :
         /\ je <= je2
         /\ queue = QueueOf(InterInits("A", 0)
                            \cup {Ev(jn, NORMAL, 3, "timeout", VehProc(VehNS), NoVeh),
                                  Ev(je, NORMAL, 4, "timeout", VehProc(VehEW), NoVeh),
                                  Ev(je2, NORMAL, 5, "timeout", VehProc(VehEW2), NoVeh),
                                  StopEv(ScenarioHorizon, 6)})
    /\ eid = 7

\* The grid Intersection under FixedTimeController(20, 20) and the
\* Intersection of sim_one_intersection, side by side on one clock, with the
\* same arrivals: one vehicle per approach, put at the same time in both.
InitPair ==
    /\ InitNoEnergy
    /\ InitNoOne
    /\ cfg = FixedCfg(GreenNsDefault, GreenEwDefault)
    /\ InitInters({"A"})
    /\ running = TRUE
    /\ failed = FALSE
    /\ veh = (VehNS :> Travelling(<<Leg("A", "NS")>>))
             @@ (VehEW :> Travelling(<<Leg("A", "EW")>>))
    /\ gen_i = [en \in Entries |-> 0]
    /\ \E jn \in ScenarioJoins, je \in ScenarioJoins :
         queue = QueueOf(InterInits("A", 0)
                         \cup {Initialize(Proc("signal1", "O", 0), 0, 3),
                               Initialize(Proc("release1", "O", 0), 0, 4),
                               Ev(jn, NORMAL, 5, "timeout", VehProc(VehNS), NoVeh),
                               Ev(je, NORMAL, 6, "timeout", VehProc(VehEW), NoVeh),
                               Ev(jn, NORMAL, 7, "timeout", Proc("gen1", "NS", 0), NoVeh),
                               Ev(je, NORMAL, 8, "timeout", Proc("gen1", "EW", 0), NoVeh),
                               StopEv(ScenarioHorizon, 9)})
    /\ eid = 10

NextPair ==
    \/ NextScenario
    \/ OneSignalStart
    \/ OneSignalStep
    \/ OneReleaseTick
    \/ OneReleaseResume
    \/ OneDone
    \/ OneArrive
    \/ OnePutDone
    \/ OneWaitStart

SpecPair == InitPair /\ [][NextPair]_vars

\* run: the default zones of sim_energy_zones
DefaultZones ==
    <<ZoneConfig("hospital", 1, 220, 35, 110, 115),
      ZoneConfig("residential", 3, 160, 80, 125, 155),
      ZoneConfig("commercial", 2, 140, 65, 135, 120),
      ZoneConfig("industrial", 4, 90, 55, 110, 110)>>

\* Zones with two priorities shared, the higher priority later in the list
TiedZones ==
    <<ZoneConfig("depot", 2, 100, 40, 110, 120),
      ZoneConfig("clinic", 1, 200, 20, 100, 100),
      ZoneConfig("school", 2, 120, 0, 125, 100),
      ZoneConfig("ward", 1, 60, 60, 100, 130)>>

ZoneLists == {DefaultZones, TiedZones}

\* capacity_kw: none, short of the base demand, run()'s default 600, ample
Capacities == {Kw(0), Kw(250), Kw(600), Kw(900)}

\* start_hour: the run starts in the night, the morning peak and the evening
StartHours == {5, 9, 21}

\* sim_energy_zones.run: the zones, the manager with or without a forecast
\* model, energy_process with a tick of one hour, env.run
InitEnergy ==
    /\ InitNoOne
    /\ cfg = FixedCfg(GreenNsDefault, GreenEwDefault)
    /\ InitInters({})
    /\ veh = <<>>
    /\ gen_i = [en \in Entries |-> 0]
    /\ running = TRUE
    /\ failed = FALSE
    /\ \E zl \in ZoneLists : zones = [i \in 1..Len(zl) |-> EnergyZone(zl[i])]
    /\ \E cap \in Capacities, sh \in StartHours, fc \in BOOLEAN :
         mgr = [capacity_kw |-> cap, forecast |-> fc, start_hour |-> sh,
                tick_s |-> 3600]
    /\ log_rows = <<>>
    /\ queue = QueueOf({Initialize(Proc("energy", "", 0), 0, 0),
                        StopEv(EnergyHours * 3600, 1)})
    /\ eid = 2

NextEnergy ==
    \/ EnergyTick
    \/ Stop

SpecEnergy == InitEnergy /\ [][NextEnergy]_vars

\* Environment.run pops and processes the next event for as long as there is
\* one: a step that stays possible is taken.
SpecLive == InitLive /\ [][NextScenario]_vars /\ WF_vars(NextScenario)

-----------------------------------------------------------------------------
(* The controllers' decide() over the states of an intersection.  The grid's
   four intersections share one controller; A is in any state within the
   bounds (phase, time in phase, queue lengths, red-wait counters), B, C and
   D are all idle or all loaded, and every signal loop is about to decide. *)

DecideConfigs ==
    {FixedCfg(2, 3), ActuatedCfg(2, 4, 1, 2), ActuatedCfg(3, 2, 1, 5),
     DTCfg("hold", 2, 4), DTCfg("switch", 2, 4), DTCfg("pressure", 2, 4),
     DTCfg("switch", 3, 2)}

\* n vehicles waiting at intersection i on approach d, in the order they
\* joined; they are numbered 1.. on NS and MaxQueueLen + 1.. on EW
Waiting(i, d, n) ==
    [k \in 1..n |-> [who |-> i, n |-> IF d = "NS" THEN k ELSE MaxQueueLen + k]]

\* A vehicle that has joined the queue of its leg at i and awaits its Event
Queued(i, d, t) ==
    [NewVehicle(<<Leg(i, d)>>) EXCEPT !.leg = 1, !.pc = "await", !.waiting = TRUE,
                                      !.released = "pending", !.last_queue_enter = t,
                                      !.joins = <<t>>]

InitDecide ==
    /\ InitNoOne
    /\ InitNoEnergy
    /\ cfg \in DecideConfigs
    /\ cfg.loaded
    /\ \E time_in \in 0..MaxTimeIn, ph \in Directions, others \in {"idle", "loaded"},
          qns \in 0..MaxQueueLen, qew \in 0..MaxQueueLen,
          rwns \in {0, MaxRedWait}, rwew \in {0, MaxRedWait} :
         /\ now = time_in
         /\ phase = [i \in GridIntersections |->
                        IF i = "A" THEN ph
                        ELSE IF others = "idle" THEN "NS" ELSE "EW"]
         /\ phase_start = [i \in GridIntersections |-> 0]
         /\ red_wait_ns = [i \in GridIntersections |->
                              IF i = "A" THEN rwns
                              ELSE IF others = "idle" THEN 0 ELSE MaxRedWait]
         /\ red_wait_ew = [i \in GridIntersections |-> IF i = "A" THEN rwew ELSE 0]
         /\ items = [i \in GridIntersections |->
                        IF i = "A"
                        THEN [d \in Directions |->
                                Waiting(i, d, IF d = "NS" THEN qns ELSE qew)]
                        ELSE [d \in Directions |->
                                Waiting(i, d, IF others = "loaded" /\ d = "NS"
                                           THEN MaxQueueLen ELSE 0)]]
         /\ queue = QueueOf(
                {Ev(time_in, NORMAL, InterNo(i), "timeout", Proc("signal", i, 0), NoVeh) :
                    i \in GridIntersections}
                \cup {StopEv(time_in + 1, 4)})
    /\ put_hist = items
    /\ veh = [v \in UNION {{items[i][d][k] : k \in 1..Len(items[i][d])} :
                             i \in GridIntersections, d \in Directions}
                |-> Queued(v.who, IF v.n <= MaxQueueLen THEN "NS" ELSE "EW", 0)]
    /\ get_queue = [i \in GridIntersections |-> [d \in Directions |-> <<>>]]
    /\ dec = [i \in GridIntersections |-> NoDecision]
    /\ fair_deadline = [i \in GridIntersections |-> [d \in Directions |-> -1]]
    /\ gen_i = [en \in Entries |-> 0]
    /\ log_events = <<>>
    /\ done = <<>>
    /\ snapshots = <<>>
    /\ eid = 5
    /\ running = TRUE
    /\ failed = FALSE

NextDecide ==
    \/ SignalStep
    \/ Stop

SpecDecide == InitDecide /\ [][NextDecide]_vars

-----------------------------------------------------------------------------
(* Properties *)

Inters == DOMAIN phase
Vehicles == DOMAIN veh

\* Positions in log_events of the release records of vehicle v at intersection i
ReleaseRecs(i, v) ==
    {k \in 1..Len(log_events) :
        /\ log_events[k].type = "release"
        /\ log_events[k].intersection = i
        /\ log_events[k].vehicle = v}

ReleasedAt(i, v) == ReleaseRecs(i, v) # {}
ReleaseTime(i, v) == log_events[CHOOSE k \in ReleaseRecs(i, v) : TRUE].t

\* The approach by which vehicle v enters intersection i
Approach(v, i) ==
    LET k == CHOOSE j \in 1..Len(veh[v].route) : veh[v].route[j].inter = i
    IN  veh[v].route[k].approach

\* C1: FIFO release order.  For every intersection and direction, if X was
\* put into the Store before Y and Y has been released there, then X has been
\* released there too, at a time no later than Y's.
C1_FifoRelease ==
    \A i \in Inters, d \in Directions :
      \A a, b \in 1..Len(put_hist[i][d]) :
        (a < b /\ ReleasedAt(i, put_hist[i][d][b]))
          => /\ ReleasedAt(i, put_hist[i][d][a])
             /\ ReleaseTime(i, put_hist[i][d][a]) <= ReleaseTime(i, put_hist[i][d][b])

\* Two vehicles were put into the same Store, the second while the first was
\* still queued, and both have been released.
C1_Witness ==
    \E i \in Inters, d \in Directions :
      /\ Len(put_hist[i][d]) >= 2
      /\ ReleasedAt(i, put_hist[i][d][1])
      /\ ReleasedAt(i, put_hist[i][d][2])
      /\ veh[put_hist[i][d][2]].waits # <<>>
      /\ veh[put_hist[i][d][2]].waits[1] > 0
      /\ ReleaseTime(i, put_hist[i][d][1]) < ReleaseTime(i, put_hist[i][d][2])

\* C2: every release record carries the approach of the vehicle it releases:
\* at the instant the completion Event is resolved the phase of the
\* intersection is the direction of the Store the vehicle came from.
C2_ReleasePhaseIsApproach ==
    \A k \in 1..Len(log_events) :
      log_events[k].type = "release"
        => log_events[k].phase = Approach(log_events[k].vehicle,
                                          log_events[k].intersection)

\* Vehicles the run still holds: scheduled in the event queue (travelling,
\* or released and about to resume, or handed to the release loop) or
\* sitting in a Store.
InQueue(v) ==
    \E k \in 1..Len(queue) : queue[k].proc = VehProc(v) \/ queue[k].val = v
InStore(v) ==
    \E i \in Inters, d \in Directions :
      \E k \in 1..Len(items[i][d]) : items[i][d][k] = v
InFlight == {v \in Vehicles : InQueue(v) \/ InStore(v)}
Completed == {done[k].vehicle : k \in 1..Len(done)}

\* C3: conservation.  The number of vehicles the generators created equals
\* the number of completion records plus the number of vehicles in flight;
\* no vehicle is both, none is neither, and no id is completed twice.
C3_Conservation ==
    LET flying == InFlight
        finished == Completed
    IN  /\ Spawned = Cardinality(Vehicles)
        /\ Spawned = Len(done) + Cardinality(flying)
        /\ \A v \in Vehicles : (v \in flying) # (v \in finished)
        /\ \A a, b \in 1..Len(done) : done[a].vehicle = done[b].vehicle => a = b

\* One vehicle has completed its route while another is still in flight.
C3_Witness ==
    /\ Len(done) >= 1
    /\ Cardinality(InFlight) >= 1
    /\ \E v \in InFlight : InStore(v)

\* C4: no decide() of ActuatedController returns HOLD with
\* time_in_phase >= max_green, and none returns SWITCH with
\* time_in_phase < min_green.
C4_ActuatedBounds ==
    \A i \in Inters :
      (cfg.kind = "actuated" /\ dec[i].n > 0)
        => /\ dec[i].action = "HOLD" => dec[i].time_in < cfg.max_green
           /\ dec[i].action = "SWITCH" => dec[i].time_in >= cfg.min_green

\* C5: fairness bound.  While a red direction has red_wait >=
\* force_switch_wait and a non-empty queue, the clock has not passed the
\* deadline fixed when that began: one time unit later, or, if min_green had
\* not elapsed then, min_green - time_in_phase plus one unit later.
C5_FairnessBound ==
    \A i \in Inters, d \in Directions :
      Starved(phase[i], red_wait_ns[i], red_wait_ew[i], items[i], d)
        => /\ fair_deadline[i][d] # -1
           /\ now <= fair_deadline[i][d]

\* A decision found the red direction starved, between min_green and
\* max_green, and switched to it.
C5_Witness ==
    \E i \in Inters :
      /\ cfg.kind = "actuated"
      /\ dec[i].n > 0
      /\ dec[i].starved
      /\ dec[i].action = "SWITCH"
      /\ dec[i].time_in >= cfg.min_green
      /\ dec[i].time_in < cfg.max_green
      /\ phase[i] = Other(dec[i].from)

\* The phase FixedTimeController gives at time t to an intersection that
\* starts NS at 0: NS for green_ns units, EW for green_ew units, and again.
FixedPhaseAt(t) ==
    IF t % (cfg.green_ns + cfg.green_ew) < cfg.green_ns THEN "NS" ELSE "EW"

\* The signal loop of intersection i has a decision to take at this instant
SignalDue(i) ==
    \E k \in 1..Len(queue) :
      queue[k].proc = Proc("signal", i, 0) /\ queue[k].t <= now

JoinedAt(v, t) == veh[v].last_queue_enter = t

\* C7: scenario.  FixedTime(20, 20), service time 2, one NS and one EW
\* vehicle joining at t = 5: the NS vehicle is released at 6 and at no other
\* time, the EW vehicle at 22 and at no other time.
C7_Scenario ==
    (/\ cfg.green_ns = 20 /\ cfg.green_ew = 20
     /\ JoinedAt(VehNS, 5) /\ JoinedAt(VehEW, 5))
      => /\ ReleasedAt("A", VehNS) => ReleaseTime("A", VehNS) = 6
         /\ now > 6 => ReleasedAt("A", VehNS)
         /\ ReleasedAt("A", VehEW) => ReleaseTime("A", VehEW) = 22
         /\ now > 22 => ReleasedAt("A", VehEW)
         /\ now < 22 => Len(items["A"]["EW"]) = 1

C7_Witness ==
    /\ cfg.green_ns = 20 /\ cfg.green_ew = 20
    /\ JoinedAt(VehNS, 5) /\ JoinedAt(VehEW, 5)
    /\ ReleasedAt("A", VehNS)
    /\ ReleasedAt("A", VehEW)
    /\ Len(done) = 2

\* C8: the green direction's red_wait counter is 0 in every state.
C8_GreenRedWaitZero ==
    \A i \in Inters :
      /\ phase[i] = "NS" => red_wait_ns[i] = 0
      /\ phase[i] = "EW" => red_wait_ew[i] = 0

\* C10: non-negativity.  Every completion record has total_wait >= 0 and
\* every wait added by Vehicle.release is >= 0.
C10_NonNegativeWait ==
    /\ \A k \in 1..Len(done) : done[k].total_wait_s >= 0
    /\ \A v \in Vehicles :
         /\ veh[v].total_wait >= 0
         /\ \A k \in 1..Len(veh[v].waits) : veh[v].waits[k] >= 0

\* A vehicle completed its route having waited in a queue.
C10_Witness ==
    \E k \in 1..Len(done) :
      /\ done[k].total_wait_s > 0
      /\ Len(veh[done[k].vehicle].waits) = 2

\* join_queue calls of vehicle v so far; release calls are Len(veh[v].waits)
Joined(v) ==
    IF veh[v].pc \in {"init", "travel"}
    THEN (IF veh[v].leg = 0 THEN 0 ELSE veh[v].leg - 1)
    ELSE veh[v].leg

\* C11: one-shot completion Events.  No process ever resolves an Event that
\* is already resolved, and every Event made by join_queue is resolved by
\* exactly one release call before the next join_queue replaces it: a
\* vehicle whose Event is pending has had one release fewer than joins, one
\* whose Event is resolved has had as many releases as joins.
C11_OneShotEvents ==
    /\ cfg.loaded => ~failed
    /\ \A v \in Vehicles :
         /\ veh[v].released = "none" => (Joined(v) = 0 /\ veh[v].waits = <<>>)
         /\ veh[v].released = "pending" => Len(veh[v].waits) = Joined(v) - 1
         /\ veh[v].released \in {"triggered", "processed"}
              => Len(veh[v].waits) = Joined(v)

\* A vehicle's Event was resolved on its first leg, re-armed by the second
\* join_queue, and resolved again.
C11_Witness ==
    \E v \in Vehicles :
      /\ Joined(v) = 2
      /\ Len(veh[v].waits) = 2
      /\ veh[v].released = "triggered"

\* The length of the red (resp. green) direction's queue under phase ph
QueueRed(ph, qns, qew) == IF ph = "NS" THEN qew ELSE qns
QueueGreen(ph, qns, qew) == IF ph = "NS" THEN qns ELSE qew

\* The first matching rule of the five, in the order (1) max_green,
\* (2) min_green, (3) fairness override, (4) pressure, (5) otherwise
ActuatedRule(c, ph, time_in, qns, qew, rwns, rwew) ==
    CASE time_in >= c.max_green -> [action |-> "SWITCH", dt |-> 0]
      [] time_in < c.max_green /\ time_in < c.min_green -> [action |-> "HOLD", dt |-> 1]
      [] OTHER ->
           IF /\ RedWait(rwns, rwew, Other(ph)) >= c.force_switch_wait
              /\ QueueRed(ph, qns, qew) > 0
           THEN [action |-> "SWITCH", dt |-> 0]
           ELSE IF QueueRed(ph, qns, qew) > QueueGreen(ph, qns, qew) + c.bias_threshold
           THEN [action |-> "SWITCH", dt |-> 0]
           ELSE [action |-> "HOLD", dt |-> 1]

\* C12: every decide() of ActuatedController returns what the first matching
\* rule gives: (1) time_in_phase >= max_green: (SWITCH, 0); (2) time_in_phase
\* < min_green: (HOLD, 1); (3) red direction's red_wait >= force_switch_wait
\* with a non-empty red queue: (SWITCH, 0); (4) red queue > green queue +
\* bias_threshold: (SWITCH, 0); (5) otherwise (HOLD, 1).
C12_ActuatedRuleOrder ==
    \A i \in Inters :
      (cfg.kind = "actuated" /\ dec[i].n > 0)
        => [action |-> dec[i].action, dt |-> dec[i].dt]
             = ActuatedRule(cfg, dec[i].from, dec[i].time_in, dec[i].q_ns, dec[i].q_ew,
                            dec[i].red_wait_ns, dec[i].red_wait_ew)

\* A decision where rules (1) and (2) both match, and (1) won.
C12_Witness ==
    \E i \in Inters :
      /\ cfg.kind = "actuated"
      /\ dec[i].n > 0
      /\ dec[i].time_in >= cfg.max_green
      /\ dec[i].time_in < cfg.min_green
      /\ dec[i].action = "SWITCH"
      /\ dec[i].dt = 0

\* The learned controller's rules: min_green, then max_green, then the label
\* of the classifier on [queue_ns, queue_ew, phase_is_ns, time_in_phase,
\* red_wait_ns, red_wait_ew]
LearnedRule(c, ph, time_in, qns, qew, rwns, rwew) ==
    CASE time_in < c.min_green -> [action |-> "HOLD", dt |-> 1]
      [] time_in >= c.min_green /\ time_in >= c.max_green
           -> [action |-> "SWITCH", dt |-> 0]
      [] OTHER ->
           IF Predict(c.model, <<qns, qew, IF ph = "NS" THEN 1 ELSE 0, time_in,
                                 rwns, rwew>>) = 1
           THEN [action |-> "SWITCH", dt |-> 0]
           ELSE [action |-> "HOLD", dt |-> 1]

\* C13: every decide() of DecisionTreeTrafficController returns (HOLD, 1)
\* when time_in_phase < min_green, even if time_in_phase >= max_green; else
\* (SWITCH, 0) when time_in_phase >= max_green; else (SWITCH, 0) if the
\* classifier's label on the six features is 1 and (HOLD, 1) if not.
C13_LearnedRuleOrder ==
    \A i \in Inters :
      (cfg.kind = "dt" /\ dec[i].n > 0)
        => [action |-> dec[i].action, dt |-> dec[i].dt]
             = LearnedRule(cfg, dec[i].from, dec[i].time_in, dec[i].q_ns, dec[i].q_ew,
                           dec[i].red_wait_ns, dec[i].red_wait_ew)

\* A decision of the learned controller with time_in_phase both below
\* min_green and at or above max_green: it held.
C13_Witness ==
    \E i \in Inters :
      /\ cfg.kind = "dt"
      /\ dec[i].n > 0
      /\ dec[i].time_in < cfg.min_green
      /\ dec[i].time_in >= cfg.max_green
      /\ dec[i].action = "HOLD"
      /\ dec[i].dt = 1

\* C20: controllers are pure and shared safely.  A step of the signal loop
\* of intersection i leaves the controller, every queue and every red_wait
\* counter as they were, touches the phase and phase_start of no other
\* intersection, and the decision it records is the controller's rule
\* applied to the state of i alone at the time of the call.
C20_PureSharedController ==
    [][(running /\ queue # <<>> /\ NextEv.proc.k = "signal")
         => LET i == NextEv.proc.who
                d == Decide(cfg, phase[i], NextEv.t - phase_start[i],
                            Len(items[i]["NS"]), Len(items[i]["EW"]),
                            red_wait_ns[i], red_wait_ew[i])
            IN  /\ cfg' = cfg
                /\ items' = items
                /\ red_wait_ns' = red_wait_ns
                /\ red_wait_ew' = red_wait_ew
                /\ \A j \in Inters \ {i} :
                     phase'[j] = phase[j] /\ phase_start'[j] = phase_start[j]
                /\ dec'[i].action = d.action
                /\ dec'[i].dt = d.dt]_vars

\* All four signal loops have decided with the shared controller, A in a
\* state unlike that of B, and their decisions differ.
C20_Witness ==
    /\ \A i \in Inters : dec[i].n > 0
    /\ Inters = GridIntersections
    /\ dec["A"].t = dec["B"].t
    /\ dec["A"].q_ew # dec["B"].q_ew
    /\ dec["A"].action # dec["B"].action

\* C14: a controller with min_green > max_green is rejected when it is
\* constructed: the run is aborted and nothing is simulated with it.
C14_MinMaxRejected ==
    (cfg.kind \in {"actuated", "dt"} /\ cfg.min_green > cfg.max_green)
      => /\ failed
         /\ ~running
         /\ log_events = <<>>

\* C15: when the artifact at model_path cannot be loaded, construction of the
\* learned controller fails and run() ends there: no Intersection exists, no
\* event is scheduled, the clock has not moved, and there is no signal or
\* release record, no snapshot and no completion record.
C15_LoadFailFast ==
    (cfg.kind = "dt" /\ cfg.model_path \notin Policies)
      => /\ failed
         /\ ~running
         /\ Inters = {}
         /\ queue = <<>>
         /\ now = 0
         /\ log_events = <<>>
         /\ snapshots = <<>>
         /\ done = <<>>

\* A run whose model artifact was corrupt has been aborted.
C15_Witness ==
    /\ cfg.kind = "dt"
    /\ cfg.model_path = "corrupt"
    /\ ~cfg.loaded
    /\ failed

IsRelease(r) == r.type = "release"
IsGet(e) == e.type = "get"

\* The release records, in log order
ReleaseLog == SelectSeq(log_events, IsRelease)

\* The get events the release loops are suspended on
HeldGets == SelectSeq(queue, IsGet)

\* The vehicles get() has handed out of the Store of direction d at i, in
\* order: those of the release records rel, then the one the release loop
\* holds (in held) and has not yet released.
DequeuedOf(rel, held, i, d) ==
    LET FromStore(r) == r.intersection = i /\ Approach(r.vehicle, i) = d
        Held(e) == e.proc.who = i /\ Approach(e.val, i) = d
        recs == SelectSeq(rel, FromStore)
        hs == SelectSeq(held, Held)
    IN  [k \in 1..Len(recs) |-> recs[k].vehicle] \o [k \in 1..Len(hs) |-> hs[k].val]

Dequeued(i, d) == DequeuedOf(ReleaseLog, HeldGets, i, d)

\* C16: Store FIFO.  For every Store, the vehicles dequeued so far followed
\* by the vehicles still in it are the vehicles put into it, in the order of
\* the puts: the dequeued sequence is a prefix of the put sequence.
C16_StoreFifo ==
    LET rel == ReleaseLog
        held == HeldGets
    IN  \A i \in Inters, d \in Directions :
          DequeuedOf(rel, held, i, d) \o items[i][d] = put_hist[i][d]

\* Two vehicles were in one Store together and both have been dequeued, the
\* earlier put first.
C16_Witness ==
    \E i \in Inters, d \in Directions :
      /\ Len(put_hist[i][d]) = 2
      /\ Dequeued(i, d) = put_hist[i][d]
      /\ items[i][d] = <<>>
      /\ ReleasedAt(i, put_hist[i][d][1])
      /\ veh[put_hist[i][d][2]].last_queue_enter < ReleaseTime(i, put_hist[i][d][1])

\* Positions in log_events of the release records of intersection i
ReleasesAt(i) ==
    {k \in 1..Len(log_events) :
        log_events[k].type = "release" /\ log_events[k].intersection = i}

\* C17: discharge cap.  Any two releases at one intersection, from either
\* direction, are at least service_time apart.
C17_DischargeCap ==
    LET rel == ReleaseLog
    IN  \A k, l \in 1..Len(rel) :
          (k < l /\ rel[k].intersection = rel[l].intersection)
            => rel[l].t - rel[k].t >= ServiceTime

\* Two vehicles queued at one intersection were released service_time apart.
C17_Witness ==
    \E i \in Inters :
      \E k, l \in ReleasesAt(i) :
        /\ k < l
        /\ log_events[l].t - log_events[k].t = ServiceTime

\* C18: starvation guard.  Under ActuatedController with 1 <= min_green <=
\* max_green no phase is older than max_green time units, and a decision
\* taken with time_in_phase >= max_green is taken at exactly max_green and is
\* SWITCH.
C18_MaxGreenGuard ==
    (cfg.kind = "actuated" /\ 1 <= cfg.min_green /\ cfg.min_green <= cfg.max_green)
      => \A i \in Inters :
           /\ now - phase_start[i] <= cfg.max_green
           /\ (dec[i].n > 0 /\ dec[i].time_in >= cfg.max_green)
                => (dec[i].action = "SWITCH" /\ dec[i].time_in = cfg.max_green)

\* An intersection with empty queues and nothing starved switched because
\* its phase had lasted max_green.
C18_Witness ==
    \E i \in Inters :
      /\ cfg.kind = "actuated"
      /\ 1 <= cfg.min_green /\ cfg.min_green <= cfg.max_green
      /\ dec[i].n > 0
      /\ dec[i].time_in = cfg.max_green
      /\ dec[i].q_ns = 0 /\ dec[i].q_ew = 0
      /\ dec[i].action = "SWITCH"
      /\ phase[i] # dec[i].from
      /\ phase_start[i] = dec[i].t

\* C19: phase changes only through SWITCH.  phase is NS or EW; a step of the
\* signal loop of i whose decision is SWITCH flips phase[i] and sets
\* phase_start[i] to the current time, one whose decision is HOLD changes
\* neither, and either appends exactly one signal record carrying the phase
\* after the action; no step changes the phase or phase_start of another
\* intersection, and no step of another process changes any phase or
\* phase_start or appends a signal record.
C19_PhaseOnlyBySwitch ==
    /\ [](\A i \in Inters : phase[i] \in Directions)
    /\ [][IF running /\ queue # <<>> /\ NextEv.proc.k = "signal"
          THEN LET i == NextEv.proc.who
                   n == Len(log_events)
               IN  /\ dec'[i].action = "SWITCH"
                        => (phase'[i] # phase[i] /\ phase_start'[i] = NextEv.t)
                   /\ dec'[i].action = "HOLD"
                        => (phase'[i] = phase[i] /\ phase_start'[i] = phase_start[i])
                   /\ \A j \in Inters \ {i} :
                        phase'[j] = phase[j] /\ phase_start'[j] = phase_start[j]
                   /\ Len(log_events') = n + 1
                   /\ SubSeq(log_events', 1, n) = log_events
                   /\ log_events'[n + 1].type = "signal"
                   /\ log_events'[n + 1].intersection = i
                   /\ log_events'[n + 1].t = NextEv.t
                   /\ log_events'[n + 1].action = dec'[i].action
                   /\ log_events'[n + 1].phase = phase'[i]
          ELSE /\ phase' = phase
               /\ phase_start' = phase_start
               /\ \/ log_events' = log_events
                  \/ /\ Len(log_events') = Len(log_events) + 1
                     /\ log_events'[Len(log_events')].type = "release"]_vars

\* A signal loop switched to EW and logged the record with the new phase,
\* and a vehicle has been released since.
C19_Witness ==
    \E i \in Inters, k \in 1..Len(log_events) :
      /\ log_events[k].type = "signal"
      /\ log_events[k].intersection = i
      /\ log_events[k].action = "SWITCH"
      /\ log_events[k].phase = "EW"
      /\ phase[i] = "EW"
      /\ phase_start[i] = log_events[k].t
      /\ \E l \in ReleasesAt(i) : l > k

\* Every process scheduled for the current instant has run
Quiescent == running /\ queue # <<>> /\ NextEv.t > now

\* C21: red-wait is the continuous red time.  Once every process of the
\* instant has run, the red direction's counter equals now minus the time
\* that direction last turned red: the time of the last SWITCH, which is
\* phase_start, or 0 if the phase never changed.
C21_RedWaitIsRedTime ==
    Quiescent
      => \A i \in Inters :
           RedWait(red_wait_ns[i], red_wait_ew[i], Other(phase[i])) = now - phase_start[i]

\* C22: no blocked getter.  No Store has a pending getter, and every get()
\* the release loop has issued was served with a vehicle at the instant it
\* was issued: its event is scheduled for the current time.
C22_NoBlockedGetter ==
    /\ \A i \in Inters, d \in Directions : get_queue[i][d] = <<>>
    /\ \A k \in 1..Len(queue) :
         queue[k].type = "get"
           => (queue[k].t = now /\ queue[k].val \in Vehicles)

\* The release loop holds a vehicle that get() served in the instant the
\* vehicle was put.
C22_Witness ==
    \E k \in 1..Len(queue) :
      /\ queue[k].type = "get"
      /\ queue[k].val \in Vehicles
      /\ veh[queue[k].val].last_queue_enter = now
      /\ \A i \in Inters, d \in Directions : get_queue[i][d] = <<>>

\* Time of the latest record of v in the release records rel, -1 if none
LastRelease(rel, v) ==
    LET Of(r) == r.vehicle = v
        mine == SelectSeq(rel, Of)
    IN  IF mine = <<>> THEN -1 ELSE mine[Len(mine)].t

\* C23: no lost wake-up.  A completion Event resolved by release_process
\* wakes its vehicle at the time of the release: while the Event is triggered
\* its event is scheduled for the current time, which is the time of the
\* release record; once it is processed the vehicle has moved on at that time,
\* to the travel timeout of its next leg or to its completion record, or is
\* about to at the current time because its put event is still to be
\* processed (yielding the processed Event does not suspend it).  A vehicle
\* suspended on its Event has an unprocessed Event.
C23_NoLostWakeup ==
    LET rel == ReleaseLog
    IN  \A v \in Vehicles :
          /\ veh[v].released = "triggered"
               => /\ LastRelease(rel, v) = now
                  /\ \E k \in 1..Len(queue) :
                       /\ queue[k].type = "released"
                       /\ queue[k].val = v
                       /\ queue[k].t = now
          /\ veh[v].released = "processed"
               => \/ /\ veh[v].pc = "done"
                     /\ \E k \in 1..Len(done) :
                          /\ done[k].vehicle = v
                          /\ done[k].finish_t = LastRelease(rel, v)
                  \/ /\ veh[v].pc = "travel"
                     /\ \E k \in 1..Len(queue) :
                          /\ queue[k].type = "timeout"
                          /\ queue[k].proc = VehProc(v)
                          /\ (queue[k].t - LastRelease(rel, v)) \in TravelDelays
                  \/ /\ veh[v].pc = "put"
                     /\ \E k \in 1..Len(queue) :
                          /\ queue[k].type = "put"
                          /\ queue[k].val = v
                          /\ queue[k].t = now
          /\ veh[v].pc = "await" => veh[v].released \in {"pending", "triggered"}

\* A vehicle put and released within one instant has resumed in that
\* instant and is travelling to its second leg.
C23_Witness ==
    \E v \in Vehicles :
      /\ veh[v].released = "processed"
      /\ veh[v].pc = "travel"
      /\ veh[v].leg = 2
      /\ veh[v].last_queue_enter = now
      /\ LastRelease(ReleaseLog, v) = now

\* No element occurs twice in the sequence s
NoRepeat(s) == \A a, b \in 1..Len(s) : s[a] = s[b] => a = b

\* v occurs in the sequence s
InSeq(s, v) == \E k \in 1..Len(s) : s[k] = v

\* Number of occurrences of v in the sequence s
Occurrences(s, v) == Cardinality({k \in 1..Len(s) : s[k] = v})

\* C24: one Store at a time, legs in order.  A Store holds a vehicle once,
\* and only while the Store is that of the leg the vehicle has joined and not
\* yet been released from, so no vehicle is in two Stores; a Store has been
\* given a vehicle once and only for a leg the vehicle has joined, and every
\* joined leg's Store has been given it; a vehicle joined leg k+1 only with a
\* release record at the intersection of leg k; and its route is the one its
\* entry point produced.
C24_OneStoreLegsInOrder ==
    /\ \A i \in Inters, d \in Directions :
         /\ NoRepeat(put_hist[i][d])
         /\ NoRepeat(items[i][d])
         /\ \A k \in 1..Len(put_hist[i][d]) :
              \E l \in 1..Joined(put_hist[i][d][k]) :
                veh[put_hist[i][d][k]].route[l] = Leg(i, d)
         /\ \A k \in 1..Len(items[i][d]) :
              LET v == items[i][d][k]
              IN  /\ Joined(v) >= 1
                  /\ veh[v].route[Joined(v)] = Leg(i, d)
                  /\ veh[v].released = "pending"
    /\ \A v \in Vehicles :
         LET route == veh[v].route
         IN  /\ route = EntryRoute(v.who)
             /\ \A l \in 1..Joined(v) :
                  InSeq(put_hist[route[l].inter][route[l].approach], v)
             /\ \A l \in 2..Joined(v) :
                  \E k \in 1..Len(log_events) :
                    /\ log_events[k].type = "release"
                    /\ log_events[k].vehicle = v
                    /\ log_events[k].intersection = route[l - 1].inter

\* A vehicle released from its first leg's Store is queued in its second
\* leg's Store.
C24_Witness ==
    \E v \in Vehicles :
      /\ Joined(v) = 2
      /\ Occurrences(items[veh[v].route[2].inter][veh[v].route[2].approach], v) = 1
      /\ Occurrences(put_hist[veh[v].route[1].inter][veh[v].route[1].approach], v) = 1

\* Time of the release record of v at the intersection of its leg l
LegRelease(rel, v, l) ==
    LET At(r) == r.vehicle = v /\ r.intersection = veh[v].route[l].inter
        recs == SelectSeq(rel, At)
    IN  IF recs = <<>> THEN -1 ELSE recs[1].t

\* Time v spent queued on its legs 1..l: release time minus put time
RECURSIVE QueueingTime(_, _, _)
QueueingTime(rel, v, l) ==
    IF l = 0 THEN 0
    ELSE QueueingTime(rel, v, l - 1) + (LegRelease(rel, v, l) - veh[v].joins[l])

\* C25: wait accounting.  Every completion record carries as total_wait_s
\* the sum over the vehicle's legs of release time minus put time, and as
\* finish_t the release time of the last leg; each put after the first came
\* a travel delay after the previous release, and that delay is in no wait.
C25_WaitAccounting ==
    LET rel == ReleaseLog
    IN  \A k \in 1..Len(done) :
          LET v == done[k].vehicle
              n == Len(veh[v].route)
          IN  /\ Len(veh[v].joins) = n
              /\ done[k].total_wait_s = QueueingTime(rel, v, n)
              /\ done[k].finish_t = LegRelease(rel, v, n)
              /\ \A l \in 2..n :
                   (veh[v].joins[l] - LegRelease(rel, v, l - 1)) \in TravelDelays

\* A vehicle that queued on both legs has its completion record.
C25_Witness ==
    \E k \in 1..Len(done) :
      /\ Len(veh[done[k].vehicle].waits) = 2
      /\ veh[done[k].vehicle].waits[1] > 0
      /\ veh[done[k].vehicle].waits[2] > 0
      /\ done[k].total_wait_s > 0

\* The controller parameters for which the claim of progress is made
ProgressParams(c) ==
    IF c.kind = "fixed"
    THEN c.green_ns >= 1 /\ c.green_ew >= 1
    ELSE 1 <= c.min_green /\ c.min_green <= c.max_green
           /\ (c.kind = "actuated" => c.bias_threshold >= 0)

\* The signal records of intersection i, in log order
SignalLog(i) ==
    LET Mine(r) == r.type = "signal" /\ r.intersection = i
    IN  SelectSeq(log_events, Mine)

\* C26: no zero-delay switch loop.  With green times of at least 1, or
\* 1 <= min_green <= max_green, the decision an intersection takes in the
\* instant of a SWITCH is HOLD with a positive re-check delay: of two
\* consecutive signal records of one intersection at one instant the first
\* is the SWITCH and the second a HOLD, no instant has a third, and when the
\* run has ended its stop event has been processed with nothing earlier left.
C26_NoZeroDelayLoop ==
    ProgressParams(cfg)
      => /\ \A i \in Inters :
              LET sl == SignalLog(i)
              IN  /\ \A k \in 1..(Len(sl) - 1) :
                       sl[k + 1].t = sl[k].t
                         => sl[k].action = "SWITCH" /\ sl[k + 1].action = "HOLD"
                  /\ \A k \in 1..(Len(sl) - 2) : sl[k + 2].t > sl[k].t
                  /\ dec[i].action = "HOLD" => dec[i].dt >= 1
         /\ ~running
              => \A k \in 1..Len(queue) :
                   queue[k].type # "stop" /\ queue[k].t >= now

\* An intersection switched and, re-deciding in the same instant, held.
C26_Witness ==
    /\ ProgressParams(cfg)
    /\ \E i \in Inters :
         /\ Len(SignalLog(i)) = 2
         /\ SignalLog(i)[1].action = "SWITCH"
         /\ SignalLog(i)[2].action = "HOLD"
         /\ SignalLog(i)[2].t = SignalLog(i)[1].t
         /\ dec[i].time_in = 0

\* C27: eventual release.  Under FixedTimeController(20, 20) and under
\* ActuatedController(8, 40, 4, 60), with service_time 2, a vehicle that has
\* joined a queue, on either approach and with another vehicle ahead of it,
\* is eventually released.
C27_EventualRelease ==
    /\ (veh[VehNS].pc \in {"put", "await"}) ~> ReleasedAt("A", VehNS)
    /\ (veh[VehEW].pc \in {"put", "await"}) ~> ReleasedAt("A", VehEW)
    /\ (veh[VehEW2].pc \in {"put", "await"}) ~> ReleasedAt("A", VehEW2)

\* Under the actuated controller the second vehicle of the red approach has
\* been released, after the one ahead of it, once max_green forced the switch.
C27_Witness ==
    /\ cfg.kind = "actuated"
    /\ ReleasedAt("A", VehEW)
    /\ ReleasedAt("A", VehEW2)
    /\ ReleaseTime("A", VehEW) >= cfg.max_green
    /\ ReleaseTime("A", VehEW2) > ReleaseTime("A", VehEW)

\* C28: the two fixed-time implementations agree.  With greens 20/20,
\* service time 2 and the same arrivals, once the processes of an instant
\* have run the two intersections show the same phase, a vehicle has been
\* released by one exactly if it has been released by the other, and at the
\* same time.
C28_ImplementationsAgree ==
    Quiescent
      => /\ one.phase = phase["A"]
         /\ \A v \in {VehNS, VehEW} :
              /\ ReleasedAt("A", v) <=> (v \in DOMAIN cars /\ cars[v].depart_t # -1)
              /\ ReleasedAt("A", v) => ReleaseTime("A", v) = cars[v].depart_t

\* C29: horizon cut-off.  When the run to horizon H has returned, every
\* wakeup of time <= H has been executed, so that none is left scheduled and
\* the monitor has a snapshot of t = H, and no record has a time beyond H.
C29_HorizonCutoff ==
    (~running /\ ~failed)
      => /\ \A k \in 1..Len(queue) : queue[k].t > Horizon
         /\ \E k \in 1..Len(snapshots) : snapshots[k].t = Horizon
         /\ \A k \in 1..Len(snapshots) : snapshots[k].t <= Horizon
         /\ \A k \in 1..Len(log_events) : log_events[k].t <= Horizon
         /\ \A k \in 1..Len(done) : done[k].finish_t <= Horizon

\* Sum of field f over the zones whose priority number is at most p
UpTo(p, f) ==
    LET Upper(z) == z.cfg.priority <= p
    IN  Total(SelectSeq(zones, Upper), f)

\* C30: base allocation is greedy by priority.  After allocate, every
\* zone has served_kw + unmet_kw = request_kw and 0 <= served_kw <=
\* request_kw; the zones of priority number up to p have together been served
\* their requests or the whole capacity, whichever is less; and a zone has
\* unmet demand only if every zone of larger priority number got nothing.
C30_GreedyByPriority ==
    log_rows # <<>>
      => \A i \in 1..Len(zones) :
           LET z == zones[i]
           IN  /\ z.served_kw + z.unmet_kw = z.request_kw
               /\ 0 <= z.served_kw
               /\ z.served_kw <= z.request_kw
               /\ UpTo(z.cfg.priority, "served_kw")
                    = Min(UpTo(z.cfg.priority, "request_kw"), mgr.capacity_kw)
               /\ z.unmet_kw > 0
                    => \A j \in 1..Len(zones) :
                         zones[j].cfg.priority > z.cfg.priority
                           => zones[j].served_kw = 0

\* The capacity ran out inside a zone: a zone of higher priority later in the
\* list is served in full, this one in part, one of lower priority not at
\* all.
C30_Witness ==
    /\ log_rows # <<>>
    /\ \E i, j, k \in 1..Len(zones) :
         /\ j > i /\ zones[j].cfg.priority < zones[i].cfg.priority
         /\ zones[j].served_kw = zones[j].request_kw /\ zones[j].request_kw > 0
         /\ 0 < zones[i].served_kw /\ zones[i].unmet_kw > 0
         /\ zones[k].cfg.priority > zones[i].cfg.priority
         /\ zones[k].served_kw = 0 /\ zones[k].request_kw > 0

\* C31: capacity is never exceeded.  After every allocate, base and
\* flexible power served add up to at most capacity_kw; flexible demand is
\* served from what the base demand left, so none is served while a zone has
\* unmet base demand; every zone has flex_served_kw + flex_unmet_kw =
\* flex_request_kw with 0 <= flex_served_kw; and the row logged carries these
\* totals.
C31_CapacityNotExceeded ==
    log_rows # <<>>
      => LET row == log_rows[Len(log_rows)]
             base_served == Total(zones, "served_kw")
             flex_served == Total(zones, "flex_served_kw")
         IN  /\ base_served + flex_served <= mgr.capacity_kw
             /\ flex_served <= mgr.capacity_kw - base_served
             /\ Total(zones, "unmet_kw") > 0 => flex_served = 0
             /\ \A i \in 1..Len(zones) :
                  /\ zones[i].flex_served_kw + zones[i].flex_unmet_kw
                       = zones[i].flex_request_kw
                  /\ 0 <= zones[i].flex_served_kw
                  /\ zones[i].flex_served_kw <= zones[i].flex_request_kw
             /\ row.total_served_kw = base_served
             /\ row.total_flex_served_kw = flex_served
             /\ row.total_served_kw + row.total_flex_served_kw <= row.capacity_kw

\* At a peak hour the base demand is served in full and the throttled
\* budget runs out inside a zone's flexible demand.
C31_Witness ==
    /\ log_rows # <<>>
    /\ Total(zones, "unmet_kw") = 0
    /\ Total(zones, "served_kw") > 0
    /\ Total(zones, "served_kw") + Total(zones, "flex_served_kw") < mgr.capacity_kw
    /\ \E i \in 1..Len(zones) :
         zones[i].flex_served_kw > 0 /\ zones[i].flex_unmet_kw > 0

====
